---- MODULE Spec2Model ----
(***************************************************************************)
(* The tool-augmented conversation loop of the RCC User Guide assistant    *)
(* (src/app.py): the stream event decoder collect_stream_response, the     *)
(* tool dispatch execute_tool / read_document over the static path tables, *)
(* and the Streamlit script's request handling over st.session_state.      *)
(***************************************************************************)
EXTENDS Naturals, Sequences, FiniteSets, TLC

(***************************************************************************)
(* Bounds of the model.                                                    *)
(***************************************************************************)
\* a prompt is accepted while the history holds at most this many entries
MaxHistory == 2
\* content blocks the model sends in one session, over all its turns
MaxSessionBlocks == 2
\* content blocks the model sends in a session of one request, over all its turns
MaxRequestBlocks == 3
\* events of a stream that is decoded an event at a time
MaxEvents == 4

(***************************************************************************)
(* Program constants.                                                      *)
(***************************************************************************)
\* read_document: if len(content) > 15000
MaxDocChars == 15000

DOCS_BASE_PATH == "./docs"

WEB_BASE_PATH == "./web"

(***************************************************************************)
(* The static tables: DOC_PATHS, WEB_DOC_PATHS and the names of TOOLS.     *)
(***************************************************************************)
DOC_PATHS ==
       ("read_accounts_doc" :> "101/accounts.md")
    @@ ("read_connecting_doc" :> "101/connecting.md")
    @@ ("read_jobs_tutorial_doc" :> "101/jobs.md")
    @@ ("read_allocations_doc" :> "101/allocations.md")
    @@ ("read_software_tutorial_doc" :> "101/software.md")
    @@ ("read_data_tutorial_doc" :> "101/data.md")
    @@ ("read_policies_doc" :> "101/policies.md")
    @@ ("read_glossary_doc" :> "101/glossary.md")
    @@ ("read_mistakes_doc" :> "101/mistakes.md")
    @@ ("read_helpdesk_doc" :> "101/helpdesk.md")
    @@ ("read_ecosystems_doc" :> "101/ecosystems.md")
    @@ ("read_clusters_doc" :> "clusters.md")
    @@ ("read_partitions_doc" :> "partitions.md")
    @@ ("read_beagle3_doc" :> "beagle3-overview.md")
    @@ ("read_slurm_main_doc" :> "slurm/main.md")
    @@ ("read_sinteractive_doc" :> "slurm/sinteractive.md")
    @@ ("read_sbatch_doc" :> "slurm/sbatch.md")
    @@ ("read_slurm_faq_doc" :> "slurm/faq.md")
    @@ ("read_storage_main_doc" :> "storage/main.md")
    @@ ("read_storage_faq_doc" :> "storage/faq.md")
    @@ ("read_ssh_main_doc" :> "ssh/main.md")
    @@ ("read_ssh_advanced_doc" :> "ssh/advance.md")
    @@ ("read_ssh_faq_doc" :> "ssh/faq.md")
    @@ ("read_thinlinc_doc" :> "thinlinc/main.md")
    @@ ("read_ondemand_doc" :> "open_ondemand/open_ondemand.md")
    @@ ("read_globus_transfer_doc" :> "globus/transfer-files.md")
    @@ ("read_globus_share_doc" :> "globus/share-files.md")
    @@ ("read_samba_doc" :> "samba.md")
    @@ ("read_software_index_doc" :> "software/index.md")
    @@ ("read_python_doc" :> "software/apps-and-envs/python.md")
    @@ ("read_tensorflow_pytorch_doc" :> "software/apps-and-envs/tf-and-torch.md")
    @@ ("read_r_doc" :> "software/apps-and-envs/r.md")
    @@ ("read_matlab_doc" :> "software/apps-and-envs/matlab.md")
    @@ ("read_singularity_doc" :> "software/apps-and-envs/singularity.md")
    @@ ("read_compilers_doc" :> "software/compilers.md")
    @@ ("read_software_faq_doc" :> "software/faq.md")
    @@ ("read_alphafold_doc" :> "software/apps-and-envs/alphafold.md")
    @@ ("read_gromacs_doc" :> "software/apps-and-envs/gromacs.md")
    @@ ("read_lammps_doc" :> "software/apps-and-envs/lammps.md")
    @@ ("read_gaussian_doc" :> "software/apps-and-envs/gaussian.md")
    @@ ("read_midwayr3_overview_doc" :> "midwayR3/overview.md")
    @@ ("read_skyway_doc" :> "skyway-overview.md")
    @@ ("read_gis_doc" :> "gis/index.md")
    @@ ("read_databases_doc" :> "databases/main.md")

WEB_DOC_PATHS ==
       ("read_web_about_rcc" :> "about-rcc.txt")
    @@ ("read_web_advisory_committees" :> "about-rcc_advisory-committees.txt")
    @@ ("read_web_ai_spotlight" :> "about-rcc_artificial-intelligence-spotlight-mind-bytes-2018.txt")
    @@ ("read_web_director_welcome" :> "about-rcc_director's-welcome.txt")
    @@ ("read_web_rcc_team" :> "about-rcc_our-team.txt")
    @@ ("read_web_user_policy" :> "about-rcc_rcc-user-policy.txt")
    @@ ("read_web_oversight_committee" :> "about-rcc_research-computing-oversight-committee.txt")
    @@ ("read_web_vision_mission" :> "about-rcc_vision-mission.txt")
    @@ ("read_web_access" :> "access.txt")
    @@ ("read_web_accounts_allocations" :> "accounts-allocations.txt")
    @@ ("read_web_grants_publications" :> "grants-publications.txt")
    @@ ("read_web_acknowledging_rcc" :> "grants-publications_acknowledging-the-RCC.txt")
    @@ ("read_web_facilities_resources" :> "grants-publications_facilities-and-resources-documents.txt")
    @@ ("read_web_pi_proposals" :> "grants-publications_for-PI-proposals.txt")
    @@ ("read_web_grant_support" :> "grants-publications_grant-support.txt")
    @@ ("read_web_hardware_quotes" :> "grants-publications_hardware-quotes.txt")
    @@ ("read_web_publications_list" :> "grants-publications_list-of-publications.txt")
    @@ ("read_web_publications" :> "grants-publications_publications.txt")
    @@ ("read_web_support_letters" :> "grants-publications_support-letters.txt")
    @@ ("read_web_resources" :> "resources.txt")
    @@ ("read_web_hpc_resources" :> "resources_high-performance-computing.txt")
    @@ ("read_web_hosted_data" :> "resources_hosted-data.txt")
    @@ ("read_web_networking" :> "resources_networking.txt")
    @@ ("read_web_software_resources" :> "resources_software.txt")
    @@ ("read_web_storage_backup" :> "resources_storage-and-backup.txt")
    @@ ("read_web_support_services" :> "support-and-services.txt")
    @@ ("read_web_cpp" :> "support-and-services_cluster-partnership-program.txt")
    @@ ("read_web_consultant_partnership" :> "support-and-services_consultant-partnership-program.txt")
    @@ ("read_web_consulting_support" :> "support-and-services_consulting-and-technical-support.txt")
    @@ ("read_web_data_management" :> "support-and-services_data-management.txt")
    @@ ("read_web_data_sharing" :> "support-and-services_data-sharing-services.txt")
    @@ ("read_web_midway2_services" :> "support-and-services_midway2.txt")
    @@ ("read_web_new_faculty" :> "support-and-services_new-faculty-program.txt")
    @@ ("read_web_outreach" :> "support-and-services_outreach.txt")
    @@ ("read_web_workshops_training" :> "support-and-services_workshops-and-training.txt")
    @@ ("read_web_faqs" :> "faqs.txt")
    @@ ("read_web_index" :> "index.txt")
    @@ ("read_web_midway2" :> "midway2.txt")
    @@ ("read_web_news_events" :> "news-and-events.txt")
    @@ ("read_web_software" :> "software.txt")
    @@ ("read_web_system_details" :> "system-details.txt")
    @@ ("read_web_workshops" :> "workshops.txt")
    @@ ("read_web_workshops_events" :> "workshops-events.txt")
    @@ ("read_web_data_viz_committee" :> "data-visualization-initiative-advisory-committee.txt")
    @@ ("read_web_team" :> "team.txt")
    @@ ("read_web_bayesian_forest" :> "bayesian-forest-cities-full-data.txt")
    @@ ("read_web_big_data_worms" :> "big-data-sleeping-worms-and-electronic-chef.txt")
    @@ ("read_web_our_work" :> "our-work-color.txt")
    @@ ("read_web_tools_resources" :> "tools-resources-color.txt")
    @@ ("read_web_incidence" :> "incidence.txt")
    @@ ("read_web_mpmri" :> "mpMRI.txt")
    @@ ("read_web_pirads" :> "pirads.txt")
    @@ ("read_web_publications_page" :> "publications.txt")
    @@ ("read_web_takecourse" :> "takecourse.txt")
    @@ ("read_web_user_guide_page" :> "user-guide.txt")

TOOLS ==
    <<
       [name |-> "read_accounts_doc"],
       [name |-> "read_connecting_doc"],
       [name |-> "read_jobs_tutorial_doc"],
       [name |-> "read_allocations_doc"],
       [name |-> "read_software_tutorial_doc"],
       [name |-> "read_data_tutorial_doc"],
       [name |-> "read_policies_doc"],
       [name |-> "read_glossary_doc"],
       [name |-> "read_mistakes_doc"],
       [name |-> "read_helpdesk_doc"],
       [name |-> "read_ecosystems_doc"],
       [name |-> "read_clusters_doc"],
       [name |-> "read_partitions_doc"],
       [name |-> "read_beagle3_doc"],
       [name |-> "read_slurm_main_doc"],
       [name |-> "read_sinteractive_doc"],
       [name |-> "read_sbatch_doc"],
       [name |-> "read_slurm_faq_doc"],
       [name |-> "read_storage_main_doc"],
       [name |-> "read_storage_faq_doc"],
       [name |-> "read_ssh_main_doc"],
       [name |-> "read_ssh_advanced_doc"],
       [name |-> "read_ssh_faq_doc"],
       [name |-> "read_thinlinc_doc"],
       [name |-> "read_ondemand_doc"],
       [name |-> "read_globus_transfer_doc"],
       [name |-> "read_globus_share_doc"],
       [name |-> "read_samba_doc"],
       [name |-> "read_software_index_doc"],
       [name |-> "read_python_doc"],
       [name |-> "read_tensorflow_pytorch_doc"],
       [name |-> "read_r_doc"],
       [name |-> "read_matlab_doc"],
       [name |-> "read_singularity_doc"],
       [name |-> "read_compilers_doc"],
       [name |-> "read_software_faq_doc"],
       [name |-> "read_alphafold_doc"],
       [name |-> "read_gromacs_doc"],
       [name |-> "read_lammps_doc"],
       [name |-> "read_gaussian_doc"],
       [name |-> "read_midwayr3_overview_doc"],
       [name |-> "read_skyway_doc"],
       [name |-> "read_gis_doc"],
       [name |-> "read_databases_doc"],
       [name |-> "read_web_about_rcc"],
       [name |-> "read_web_advisory_committees"],
       [name |-> "read_web_ai_spotlight"],
       [name |-> "read_web_director_welcome"],
       [name |-> "read_web_rcc_team"],
       [name |-> "read_web_user_policy"],
       [name |-> "read_web_oversight_committee"],
       [name |-> "read_web_vision_mission"],
       [name |-> "read_web_access"],
       [name |-> "read_web_accounts_allocations"],
       [name |-> "read_web_grants_publications"],
       [name |-> "read_web_acknowledging_rcc"],
       [name |-> "read_web_facilities_resources"],
       [name |-> "read_web_pi_proposals"],
       [name |-> "read_web_grant_support"],
       [name |-> "read_web_hardware_quotes"],
       [name |-> "read_web_publications_list"],
       [name |-> "read_web_support_letters"],
       [name |-> "read_web_resources"],
       [name |-> "read_web_hpc_resources"],
       [name |-> "read_web_hosted_data"],
       [name |-> "read_web_networking"],
       [name |-> "read_web_software_resources"],
       [name |-> "read_web_storage_backup"],
       [name |-> "read_web_support_services"],
       [name |-> "read_web_cpp"],
       [name |-> "read_web_consultant_partnership"],
       [name |-> "read_web_consulting_support"],
       [name |-> "read_web_data_management"],
       [name |-> "read_web_data_sharing"],
       [name |-> "read_web_midway2_services"],
       [name |-> "read_web_new_faculty"],
       [name |-> "read_web_outreach"],
       [name |-> "read_web_workshops_training"],
       [name |-> "read_web_faqs"],
       [name |-> "read_web_system_details"],
       [name |-> "read_web_workshops"],
       [name |-> "read_web_workshops_events"],
       [name |-> "read_web_data_viz_committee"],
       [name |-> "read_web_bayesian_forest"],
       [name |-> "read_web_big_data_worms"],
       [name |-> "read_web_our_work"],
       [name |-> "read_web_tools_resources"],
       [name |-> "read_web_index"],
       [name |-> "read_web_midway2"],
       [name |-> "read_web_news_events"],
       [name |-> "read_web_software"],
       [name |-> "read_web_team"],
       [name |-> "read_web_publications"],
       [name |-> "read_web_publications_page"],
       [name |-> "read_web_user_guide_page"],
       [name |-> "read_web_takecourse"],
       [name |-> "read_web_incidence"],
       [name |-> "read_web_mpmri"],
       [name |-> "read_web_pirads"]
    >>

\* the names advertised to the model: [t["name"] for t in TOOLS]
ToolRegistry == {TOOLS[i].name : i \in DOMAIN TOOLS}

(***************************************************************************)
(* Text that may hold a document read from disk.  A text is a sequence of  *)
(* pieces; a piece is a literal string or the first `chars` characters of  *)
(* a file.  Cat is string concatenation (adjacent literals merge, so equal *)
(* texts have equal representations).                                      *)
(***************************************************************************)
Lit(s) == <<[lit |-> s, file |-> "", chars |-> 0]>>

FilePrefix(f, n) == IF n = 0 THEN Lit("") ELSE <<[lit |-> "", file |-> f, chars |-> n]>>

IsLit(p) == p.file = ""

Cat(a, b) ==
    IF a = <<>> THEN b
    ELSE IF b = <<>> THEN a
    ELSE IF IsLit(a[Len(a)]) /\ IsLit(b[1])
         THEN SubSeq(a, 1, Len(a) - 1) \o Lit(a[Len(a)].lit \o b[1].lit) \o Tail(b)
         ELSE a \o b

\* os.path.join(base_path, file_path)
PathJoin(base_path, file_path) == base_path \o "/" \o file_path

(***************************************************************************)
(* read_document.  f is what open(full_path) finds at the time of the     *)
(* read: [state, chars], a file of `chars` characters, no file, or a file  *)
(* that cannot be read.                                                    *)
(***************************************************************************)
TruncationMarker == "\n\n[... Document truncated due to length ...]"

OSErrorText(full_path) == "[Errno 13] Permission denied: '" \o full_path \o "'"

\* read_document that returns an empty text for a document it does not find
read_document_SilentOnMissing(file_path, base_path, f) ==
    LET full_path == PathJoin(base_path, file_path)
    IN  IF f.state = "missing"
        THEN Lit("")
        ELSE IF f.state = "unreadable"
        THEN Lit("Error reading document: " \o OSErrorText(full_path))
        ELSE IF f.chars > MaxDocChars
        THEN Cat(FilePrefix(full_path, MaxDocChars), Lit(TruncationMarker))
        ELSE FilePrefix(full_path, f.chars)

\* read_document that also cuts a document of exactly MaxDocChars characters
read_document_CutAtCap(file_path, base_path, f) ==
    LET full_path == PathJoin(base_path, file_path)
    IN  IF f.state = "missing"
        THEN Lit("Error: Document '" \o file_path \o "' not found.")
        ELSE IF f.state = "unreadable"
        THEN Lit("Error reading document: " \o OSErrorText(full_path))
        ELSE IF f.chars >= MaxDocChars
        THEN Cat(FilePrefix(full_path, MaxDocChars), Lit(TruncationMarker))
        ELSE FilePrefix(full_path, f.chars)

read_document(file_path, base_path, f) ==
    LET full_path == PathJoin(base_path, file_path)
    IN  IF f.state = "missing"
        THEN Lit("Error: Document '" \o file_path \o "' not found.")
        ELSE IF f.state = "unreadable"
        THEN Lit("Error reading document: " \o OSErrorText(full_path))
        ELSE IF f.chars > MaxDocChars
        THEN Cat(FilePrefix(full_path, MaxDocChars), Lit(TruncationMarker))
        ELSE FilePrefix(full_path, f.chars)

read_web_document(file_path, f) == read_document(file_path, WEB_BASE_PATH, f)

(***************************************************************************)
(* execute_tool: the result text and the path opened on the backend        *)
(* (<<>> when no read is made).                                            *)
(***************************************************************************)
\* execute_tool with the name left out of the error text
execute_tool_NoName(tool_name, tool_input, f) ==
    IF tool_name \in DOMAIN DOC_PATHS
    THEN [content |-> Cat(Lit("=== DOCUMENT: " \o DOC_PATHS[tool_name] \o " ===\n\n"),
                          read_document(DOC_PATHS[tool_name], DOCS_BASE_PATH, f)),
          opened |-> <<PathJoin(DOCS_BASE_PATH, DOC_PATHS[tool_name])>>]
    ELSE IF tool_name \in DOMAIN WEB_DOC_PATHS
    THEN [content |-> Cat(Lit("=== WEB CONTENT: " \o WEB_DOC_PATHS[tool_name] \o " ===\n\n"),
                          read_web_document(WEB_DOC_PATHS[tool_name], f)),
          opened |-> <<PathJoin(WEB_BASE_PATH, WEB_DOC_PATHS[tool_name])>>]
    ELSE [content |-> Lit("Unknown tool"), opened |-> <<>>]

\* execute_tool that looks the name up in DOC_PATHS alone
execute_tool_DocsOnly(tool_name, tool_input, f) ==
    IF tool_name \in DOMAIN DOC_PATHS
    THEN [content |-> Cat(Lit("=== DOCUMENT: " \o DOC_PATHS[tool_name] \o " ===\n\n"),
                          read_document(DOC_PATHS[tool_name], DOCS_BASE_PATH, f)),
          opened |-> <<PathJoin(DOCS_BASE_PATH, DOC_PATHS[tool_name])>>]
    ELSE [content |-> Lit("Unknown tool: " \o tool_name), opened |-> <<>>]

execute_tool(tool_name, tool_input, f) ==
    IF tool_name \in DOMAIN DOC_PATHS
    THEN LET doc_path == DOC_PATHS[tool_name]
         IN  [content |-> Cat(Lit("=== DOCUMENT: " \o doc_path \o " ===\n\n"),
                              read_document(doc_path, DOCS_BASE_PATH, f)),
              opened |-> <<PathJoin(DOCS_BASE_PATH, doc_path)>>]
    ELSE IF tool_name \in DOMAIN WEB_DOC_PATHS
    THEN LET doc_path == WEB_DOC_PATHS[tool_name]
         IN  [content |-> Cat(Lit("=== WEB CONTENT: " \o doc_path \o " ===\n\n"),
                              read_web_document(doc_path, f)),
              opened |-> <<PathJoin(WEB_BASE_PATH, doc_path)>>]
    ELSE [content |-> Lit("Unknown tool: " \o tool_name), opened |-> <<>>]

(***************************************************************************)
(* Stream events.  Every event carries all fields; a field an event kind   *)
(* does not have is "".                                                    *)
(***************************************************************************)
Event(type, block_type, id, name, delta_type, text, partial_json) ==
    [type |-> type, block_type |-> block_type, id |-> id, name |-> name,
     delta_type |-> delta_type, text |-> text, partial_json |-> partial_json]

BlockStartTool(id, name) == Event("content_block_start", "tool_use", id, name, "", "", "")

BlockStartText == Event("content_block_start", "text", "", "", "", "", "")

TextDelta(t) == Event("content_block_delta", "", "", "", "text_delta", t, "")

JsonDelta(j) == Event("content_block_delta", "", "", "", "input_json_delta", "", j)

BlockStop == Event("content_block_stop", "", "", "", "", "", "")

MessageStop == Event("message_stop", "", "", "", "", "", "")

(***************************************************************************)
(* json.loads on the argument texts the model can build from its fragments:*)
(* "{}" is the empty object, a run of digits 1 is a number, every other    *)
(* text raises JSONDecodeError.  A value is [type, repr].                  *)
(***************************************************************************)
EmptyDict == [type |-> "dict", repr |-> "{}"]

RECURSIVE Ones(_)
Ones(n) == IF n = 0 THEN "" ELSE "1" \o Ones(n - 1)

JsonLoads(s) ==
    IF s = "{}" THEN [ok |-> TRUE, value |-> EmptyDict]
    ELSE IF Len(s) >= 1 /\ s = Ones(Len(s))
    THEN [ok |-> TRUE, value |-> [type |-> "int", repr |-> s]]
    ELSE [ok |-> FALSE, value |-> EmptyDict]

\* json.loads(current_tool_input) if current_tool_input else {}, except JSONDecodeError: {}
ParseToolInput(current_tool_input) ==
    IF current_tool_input = "" THEN EmptyDict
    ELSE IF JsonLoads(current_tool_input).ok THEN JsonLoads(current_tool_input).value
    ELSE EmptyDict

(***************************************************************************)
(* collect_stream_response.  The decoder state d holds the four locals;    *)
(* current_tool is <<>> for None and <<tool>> otherwise.                   *)
(***************************************************************************)
DecoderInit ==
    [full_text |-> "", tool_use_blocks |-> <<>>, current_tool |-> <<>>,
     current_tool_input |-> ""]

\* OnBlockStart that takes the start of a text block as the end of the open tool record
OnBlockStart_TextDropsTool(d, event) ==
    IF event.block_type = "tool_use"
    THEN [d EXCEPT !.current_tool = <<[id |-> event.id, name |-> event.name,
                                       input |-> EmptyDict]>>,
                   !.current_tool_input = ""]
    ELSE [d EXCEPT !.current_tool = <<>>, !.current_tool_input = ""]

\* OnBlockStart that opens the record without emptying the argument accumulator
OnBlockStart_KeepsInput(d, event) ==
    IF event.block_type = "tool_use"
    THEN [d EXCEPT !.current_tool = <<[id |-> event.id, name |-> event.name,
                                       input |-> EmptyDict]>>]
    ELSE d

OnBlockStart(d, event) ==
    IF event.block_type = "tool_use"
    THEN [d EXCEPT !.current_tool = <<[id |-> event.id, name |-> event.name,
                                       input |-> EmptyDict]>>,
                   !.current_tool_input = ""]
    ELSE d

\* OnBlockDelta that keeps the text only while no tool_use block is open
OnBlockDelta_TextOutsideTool(d, event) ==
    IF event.delta_type = "text_delta" /\ d.current_tool = <<>>
    THEN [d EXCEPT !.full_text = d.full_text \o event.text]
    ELSE IF event.delta_type = "input_json_delta" /\ d.current_tool # <<>>
    THEN [d EXCEPT !.current_tool_input = d.current_tool_input \o event.partial_json]
    ELSE d

OnBlockDelta(d, event) ==
    IF event.delta_type = "text_delta"
    THEN [d EXCEPT !.full_text = d.full_text \o event.text]
    ELSE IF event.delta_type = "input_json_delta" /\ d.current_tool # <<>>
    THEN [d EXCEPT !.current_tool_input = d.current_tool_input \o event.partial_json]
    ELSE d

\* OnBlockStop that appends the request and leaves the record open
OnBlockStop_LeavesOpen(d, event) ==
    IF d.current_tool # <<>>
    THEN [d EXCEPT !.tool_use_blocks =
                       Append(d.tool_use_blocks,
                              [d.current_tool[1] EXCEPT
                                  !.input = ParseToolInput(d.current_tool_input)]),
                   !.current_tool_input = ""]
    ELSE d

\* OnBlockStop that discards a tool whose argument text does not parse
OnBlockStop_DropUnparsed(d, event) ==
    IF d.current_tool # <<>>
    THEN IF d.current_tool_input # "" /\ ~JsonLoads(d.current_tool_input).ok
         THEN [d EXCEPT !.current_tool = <<>>, !.current_tool_input = ""]
         ELSE [d EXCEPT !.tool_use_blocks =
                            Append(d.tool_use_blocks,
                                   [d.current_tool[1] EXCEPT
                                       !.input = ParseToolInput(d.current_tool_input)]),
                        !.current_tool = <<>>,
                        !.current_tool_input = ""]
    ELSE d

OnBlockStop(d, event) ==
    IF d.current_tool # <<>>
    THEN [d EXCEPT !.tool_use_blocks =
                       Append(d.tool_use_blocks,
                              [d.current_tool[1] EXCEPT
                                  !.input = ParseToolInput(d.current_tool_input)]),
                   !.current_tool = <<>>,
                   !.current_tool_input = ""]
    ELSE d

OnEvent(d, event) ==
    IF event.type = "content_block_start" THEN OnBlockStart(d, event)
    ELSE IF event.type = "content_block_delta" THEN OnBlockDelta(d, event)
    ELSE IF event.type = "content_block_stop" THEN OnBlockStop(d, event)
    ELSE d

\* for event in s: ... elif event.type == "message_stop": break
RECURSIVE DecodeEvents(_, _)
DecodeEvents(d, events) ==
    IF events = <<>> THEN d
    ELSE IF Head(events).type = "message_stop" THEN d
    ELSE DecodeEvents(OnEvent(d, Head(events)), Tail(events))

(***************************************************************************)
(* s.get_final_message(): the message the client library accumulates from *)
(* the whole stream, one content block per block-start, text deltas added  *)
(* to the block they belong to (the last one opened).                      *)
(***************************************************************************)
TextBlock(t) == [type |-> "text", text |-> t, id |-> "", name |-> ""]

ToolUseBlock(id, name) == [type |-> "tool_use", text |-> "", id |-> id, name |-> name]

RECURSIVE AccumulateContent(_, _)
AccumulateContent(content, events) ==
    IF events = <<>> THEN content
    ELSE LET e == Head(events)
             n == Len(content)
             next ==
                 IF e.type = "content_block_start"
                 THEN Append(content,
                             IF e.block_type = "tool_use"
                             THEN ToolUseBlock(e.id, e.name)
                             ELSE TextBlock(""))
                 ELSE IF /\ e.type = "content_block_delta"
                         /\ e.delta_type = "text_delta"
                         /\ n > 0
                         /\ content[n].type = "text"
                 THEN [content EXCEPT ![n].text = content[n].text \o e.text]
                 ELSE content
         IN  AccumulateContent(next, Tail(events))

get_final_message(events) == [content |-> AccumulateContent(<<>>, events)]

collect_stream_response(events) ==
    LET d == DecodeEvents(DecoderInit, events)
    IN  [full_text |-> d.full_text,
         tool_use_blocks |-> d.tool_use_blocks,
         final_message |-> get_final_message(events)]

(***************************************************************************)
(* The inputs of the model: the prompts a user types, the tool names the   *)
(* model asks for, the argument fragments it streams, and the streams it   *)
(* sends for one turn.                                                     *)
(***************************************************************************)
Prompts == {"How do I request an interactive session?"}

RequestedNames == {"read_sinteractive_doc", "read_web_faqs", "read_nonexistent_doc"}

\* no fragment, a valid object in two fragments, an unparsable text
ArgFragments == {<<>>, <<"{", "}">>, <<"{">>}

TextPlan == [type |-> "text", name |-> "", frags |-> <<"Use sinteractive.">>, closed |-> TRUE]

ToolPlan(name, frags, closed) ==
    [type |-> "tool_use", name |-> name, frags |-> frags, closed |-> closed]

\* every name is requested with a well-formed object; the argument text varies, and the
\* block-stop may be missing, on one tool
ToolPlans ==
    {ToolPlan(n, <<"{", "}">>, TRUE) : n \in RequestedNames}
    \cup {ToolPlan("read_sinteractive_doc", f, TRUE) : f \in ArgFragments}
    \cup {ToolPlan("read_sinteractive_doc", <<>>, FALSE)}

BlockPlans == {TextPlan} \cup ToolPlans

\* the turns of at most `budget` content blocks
TurnPlans(budget) == UNION {[1..n -> BlockPlans] : n \in 0..budget}

ToolUseId(call, i) == "toolu_" \o ToString(call) \o "_" \o ToString(i)

RECURSIVE Deltas(_, _)
Deltas(type, frags) ==
    IF frags = <<>> THEN <<>>
    ELSE <<IF type = "text" THEN TextDelta(Head(frags)) ELSE JsonDelta(Head(frags))>>
         \o Deltas(type, Tail(frags))

PlanEvents(plan, id) ==
    <<IF plan.type = "text" THEN BlockStartText ELSE BlockStartTool(id, plan.name)>>
    \o Deltas(plan.type, plan.frags)
    \o (IF plan.closed THEN <<BlockStop>> ELSE <<>>)

RECURSIVE TurnEvents(_, _, _)
TurnEvents(plans, call, i) ==
    IF i > Len(plans) THEN <<MessageStop>>
    ELSE PlanEvents(plans[i], ToolUseId(call, i)) \o TurnEvents(plans, call, i + 1)

\* the content blocks of the assistant turns of a history
RECURSIVE AssistantBlocks(_)
AssistantBlocks(history) ==
    IF history = <<>> THEN 0
    ELSE (IF Head(history).role = "assistant" THEN Len(Head(history).content.blocks) ELSE 0)
         + AssistantBlocks(Tail(history))

\* the streams the model may send in answer to call number `call` with this history
Streams(call, history) ==
    {TurnEvents(plans, call, 1) :
        plans \in TurnPlans(MaxSessionBlocks - AssistantBlocks(history))}

\* what a read may find on disk
FileStates ==
    {[state |-> "ok", chars |-> 120],
     [state |-> "missing", chars |-> 0],
     [state |-> "unreadable", chars |-> 0]}

(***************************************************************************)
(* Conversation entries.                                                   *)
(***************************************************************************)
StrContent(s) == [kind |-> "str", text |-> s, blocks |-> <<>>]

ListContent(blocks) == [kind |-> "list", text |-> "", blocks |-> blocks]

\* {"role": "user", "content": prompt}; .get("is_final") and .get("tool_names", []) default
UserEntry(prompt) ==
    [role |-> "user", content |-> StrContent(prompt), tool_names |-> <<>>, is_final |-> FALSE]

FinalEntry(content, tool_names) ==
    [role |-> "assistant", content |-> ListContent(content), tool_names |-> tool_names,
     is_final |-> TRUE]

ApiMessage(role, content) == [role |-> role, content |-> content]

ToolResultBlock(tool_use_id, content) ==
    [type |-> "tool_result", tool_use_id |-> tool_use_id, content |-> content]

(***************************************************************************)
(* State.  messages and processing are st.session_state; pc is the         *)
(* position of the script ("idle": waiting for input, "start": rerun       *)
(* pending after a prompt, "awaiting": a model call is outstanding,        *)
(* "dispatch": inside the for loop over tool_use_blocks); the others are   *)
(* the locals of the "Process request" block.  opened lists the paths the  *)
(* current dispatch has opened, ncalls counts the model calls of the       *)
(* current or last request, st_error tells whether the last run ended in   *)
(* st.error.  decoder holds the locals of collect_stream_response; the     *)
(* loop takes a call to it as one step, so they matter only where the      *)
(* events of a stream are taken one at a time.                             *)
(***************************************************************************)
VARIABLES messages, processing, pc, api_messages, stream, response_text,
          tool_use_blocks, response, all_tool_names, tool_results, tool_index,
          opened, ncalls, st_error, decoder, wrapping

vars == <<messages, processing, pc, api_messages, stream, response_text,
          tool_use_blocks, response, all_tool_names, tool_results, tool_index,
          opened, ncalls, st_error, decoder, wrapping>>

NoResponse == [content |-> <<>>]

\* the locals of fix_line_wrapping when the function is not running
NotWrapping == [lines |-> <<>>, result |-> <<>>, i |-> 0, current |-> <<>>, at |-> "off"]

LocalsCleared ==
    /\ api_messages' = <<>>
    /\ stream' = <<>>
    /\ response_text' = ""
    /\ tool_use_blocks' = <<>>
    /\ response' = NoResponse
    /\ all_tool_names' = <<>>
    /\ tool_results' = <<>>
    /\ tool_index' = 1
    /\ opened' = <<>>
    /\ decoder' = DecoderInit

Init ==
    /\ messages = <<>>
    /\ processing = FALSE
    /\ pc = "idle"
    /\ api_messages = <<>>
    /\ stream = <<>>
    /\ response_text = ""
    /\ tool_use_blocks = <<>>
    /\ response = NoResponse
    /\ all_tool_names = <<>>
    /\ tool_results = <<>>
    /\ tool_index = 1
    /\ opened = <<>>
    /\ ncalls = 0
    /\ st_error = FALSE
    /\ decoder = DecoderInit
    /\ wrapping = NotWrapping

(***************************************************************************)
(* Pieces of the "Process request" block.                                  *)
(***************************************************************************)
\* BuildApiMessages that sends the new prompt alone
BuildApiMessages_OnlyLast(msgs) ==
    IF msgs = <<>> THEN <<>>
    ELSE <<ApiMessage(msgs[Len(msgs)].role, msgs[Len(msgs)].content)>>

\* for m in st.session_state.messages: api_messages.append({"role", "content"})
BuildApiMessages(msgs) ==
    [i \in 1..Len(msgs) |-> ApiMessage(msgs[i].role, msgs[i].content)]

\* [tb["name"] for tb in tool_use_blocks]
RECURSIVE ToolNamesOf(_)
ToolNamesOf(blocks) ==
    IF blocks = <<>> THEN <<>> ELSE <<Head(blocks).name>> \o ToolNamesOf(Tail(blocks))

\* ToolResultFor that files the result under the tool's name
ToolResultFor_ByName(tool_block, f) ==
    ToolResultBlock(tool_block.name, execute_tool(tool_block.name, tool_block.input, f).content)

\* one pass of "for tool_block in tool_use_blocks"
ToolResultFor(tool_block, f) ==
    ToolResultBlock(tool_block.id, execute_tool(tool_block.name, tool_block.input, f).content)

\* an assistant turn rebuilt from the text of the turn
AssistantTurn_FromText(resp) ==
    ApiMessage("assistant", ListContent(SelectSeq(resp.content, LAMBDA b : b.type = "text")))

\* api_messages.append({"role": "assistant", "content": response.content})
AssistantTurn(resp) == ApiMessage("assistant", ListContent(resp.content))

\* api_messages.append({"role": "user", "content": tool_results})
ToolResultBatch(results) == ApiMessage("user", ListContent(results))

\* a for loop that is left after its first pass
DispatchDone_AfterFirst(index, blocks) == index > 1

\* for tool_block in tool_use_blocks: the loop ends after the last block
DispatchDone(index, blocks) == index > Len(blocks)

\* an append of the batch that drops the oldest entry of the history to make room
AppendBatch_Sliding(history, results) == Append(Tail(history), ToolResultBatch(results))

\* api_messages.append({"role": "user", "content": tool_results})
AppendBatch(history, results) == Append(history, ToolResultBatch(results))

\* client.messages.stream(model=MODEL, ..., messages=api_messages, tools=TOOLS)
ModelCallRequest(history) == [messages |-> history, tools |-> TOOLS]

\* a chat input that is never disabled
ChatInputEnabled_Always(busy) == TRUE

\* prompt = st.chat_input(..., disabled=st.session_state.processing)
ChatInputEnabled(busy) == ~busy

\* a tool turn that is also kept in st.session_state.messages
MessagesAfterToolTurn_Stored(msgs, resp) ==
    Append(msgs, [role |-> "assistant", content |-> ListContent(resp.content),
                  tool_names |-> <<>>, is_final |-> FALSE])

\* "Add to API messages only (not display)": a tool turn leaves st.session_state.messages as is
MessagesAfterToolTurn(msgs, resp) == msgs

\* all_tool_names.extend(...) that keeps the names of the last tool-requesting turn only
ExtendToolNames_LastTurn(names, blocks) ==
    IF blocks = <<>> THEN names ELSE ToolNamesOf(blocks)

\* all_tool_names = [tb["name"] ...]; all_tool_names.extend([tb["name"] for tb in tool_use_blocks])
ExtendToolNames(names, blocks) == names \o ToolNamesOf(blocks)

\* a while loop that gives up after the second model call
NeedsDispatch_Capped(blocks) == blocks # <<>> /\ ncalls < 2

\* while tool_use_blocks:
NeedsDispatch(blocks) == blocks # <<>>

\* AppendFinal without the test of response.content
AppendFinal_NoGuard(msgs, resp, tool_names) == Append(msgs, FinalEntry(resp.content, tool_names))

\* if response and response.content: st.session_state.messages.append({... "is_final": True})
AppendFinal(msgs, resp, tool_names) ==
    IF resp.content # <<>>
    THEN Append(msgs, FinalEntry(resp.content, tool_names))
    ELSE msgs

\* a release of the busy flag that is skipped when the request has failed
FinallyProcessing_OnSuccessOnly(failed) == failed

\* finally: st.session_state.processing = False, after the try body and after the except
FinallyProcessing(failed) == FALSE

\* a rollback that leaves the prompt in place
Rollback_Keep(msgs) == msgs

\* a rollback that pops the last entry whatever its role
Rollback_PopAny(msgs) ==
    IF msgs # <<>> THEN SubSeq(msgs, 1, Len(msgs) - 1) ELSE msgs

\* if st.session_state.messages and st.session_state.messages[-1]["role"] == "user": pop()
Rollback(msgs) ==
    IF msgs # <<>> /\ msgs[Len(msgs)].role = "user"
    THEN SubSeq(msgs, 1, Len(msgs) - 1)
    ELSE msgs

(***************************************************************************)
(* The chat history rendering.                                             *)
(***************************************************************************)
RECURSIVE JoinLines(_)
JoinLines(texts) ==
    IF texts = <<>> THEN ""
    ELSE IF Len(texts) = 1 THEN texts[1]
    ELSE texts[1] \o "\n" \o JoinLines(Tail(texts))

RECURSIVE TextsOf(_)
TextsOf(blocks) ==
    IF blocks = <<>> THEN <<>>
    ELSE (IF Head(blocks).type = "text" /\ Head(blocks).text # ""
          THEN <<Head(blocks).text>> ELSE <<>>)
         \o TextsOf(Tail(blocks))

\* extract_display_text that shows the first text block only
extract_display_text_FirstBlock(content) ==
    IF content.kind = "str" THEN content.text
    ELSE IF TextsOf(content.blocks) = <<>> THEN "" ELSE TextsOf(content.blocks)[1]

extract_display_text(content) ==
    IF content.kind = "str" THEN content.text ELSE JoinLines(TextsOf(content.blocks))

\* for message in st.session_state.messages: render_user_message / render_assistant_message
RECURSIVE Display(_)
Display(msgs) ==
    IF msgs = <<>> THEN <<>>
    ELSE LET message == Head(msgs)
         IN  (IF message.role = "user" /\ message.content.kind = "str"
              THEN <<[role |-> "user", text |-> message.content.text, tool_names |-> <<>>]>>
              ELSE IF /\ message.role = "assistant"
                      /\ message.is_final
                      /\ extract_display_text(message.content) # ""
              THEN <<[role |-> "assistant", text |-> extract_display_text(message.content),
                      tool_names |-> message.tool_names]>>
              ELSE <<>>)
             \o Display(Tail(msgs))

(***************************************************************************)
(* format_tool_names.  A string is spelled as the sequence of its          *)
(* characters where the code works on characters; Spelling spells the      *)
(* tool names of the registry and of RequestedNames.                       *)
(***************************************************************************)
Spelling ==
    ("read_accounts_doc" :> <<"r", "e", "a", "d", "_", "a", "c", "c", "o", "u", "n", "t", "s", "_", "d", "o", "c">>) @@
    ("read_connecting_doc" :> <<"r", "e", "a", "d", "_", "c", "o", "n", "n", "e", "c", "t", "i", "n", "g", "_", "d", "o", "c">>) @@
    ("read_jobs_tutorial_doc" :> <<"r", "e", "a", "d", "_", "j", "o", "b", "s", "_", "t", "u", "t", "o", "r", "i", "a", "l", "_", "d", "o", "c">>) @@
    ("read_allocations_doc" :> <<"r", "e", "a", "d", "_", "a", "l", "l", "o", "c", "a", "t", "i", "o", "n", "s", "_", "d", "o", "c">>) @@
    ("read_software_tutorial_doc" :> <<"r", "e", "a", "d", "_", "s", "o", "f", "t", "w", "a", "r", "e", "_", "t", "u", "t", "o", "r", "i", "a", "l", "_", "d", "o", "c">>) @@
    ("read_data_tutorial_doc" :> <<"r", "e", "a", "d", "_", "d", "a", "t", "a", "_", "t", "u", "t", "o", "r", "i", "a", "l", "_", "d", "o", "c">>) @@
    ("read_policies_doc" :> <<"r", "e", "a", "d", "_", "p", "o", "l", "i", "c", "i", "e", "s", "_", "d", "o", "c">>) @@
    ("read_glossary_doc" :> <<"r", "e", "a", "d", "_", "g", "l", "o", "s", "s", "a", "r", "y", "_", "d", "o", "c">>) @@
    ("read_mistakes_doc" :> <<"r", "e", "a", "d", "_", "m", "i", "s", "t", "a", "k", "e", "s", "_", "d", "o", "c">>) @@
    ("read_helpdesk_doc" :> <<"r", "e", "a", "d", "_", "h", "e", "l", "p", "d", "e", "s", "k", "_", "d", "o", "c">>) @@
    ("read_ecosystems_doc" :> <<"r", "e", "a", "d", "_", "e", "c", "o", "s", "y", "s", "t", "e", "m", "s", "_", "d", "o", "c">>) @@
    ("read_clusters_doc" :> <<"r", "e", "a", "d", "_", "c", "l", "u", "s", "t", "e", "r", "s", "_", "d", "o", "c">>) @@
    ("read_partitions_doc" :> <<"r", "e", "a", "d", "_", "p", "a", "r", "t", "i", "t", "i", "o", "n", "s", "_", "d", "o", "c">>) @@
    ("read_beagle3_doc" :> <<"r", "e", "a", "d", "_", "b", "e", "a", "g", "l", "e", "3", "_", "d", "o", "c">>) @@
    ("read_slurm_main_doc" :> <<"r", "e", "a", "d", "_", "s", "l", "u", "r", "m", "_", "m", "a", "i", "n", "_", "d", "o", "c">>) @@
    ("read_sinteractive_doc" :> <<"r", "e", "a", "d", "_", "s", "i", "n", "t", "e", "r", "a", "c", "t", "i", "v", "e", "_", "d", "o", "c">>) @@
    ("read_sbatch_doc" :> <<"r", "e", "a", "d", "_", "s", "b", "a", "t", "c", "h", "_", "d", "o", "c">>) @@
    ("read_slurm_faq_doc" :> <<"r", "e", "a", "d", "_", "s", "l", "u", "r", "m", "_", "f", "a", "q", "_", "d", "o", "c">>) @@
    ("read_storage_main_doc" :> <<"r", "e", "a", "d", "_", "s", "t", "o", "r", "a", "g", "e", "_", "m", "a", "i", "n", "_", "d", "o", "c">>) @@
    ("read_storage_faq_doc" :> <<"r", "e", "a", "d", "_", "s", "t", "o", "r", "a", "g", "e", "_", "f", "a", "q", "_", "d", "o", "c">>) @@
    ("read_ssh_main_doc" :> <<"r", "e", "a", "d", "_", "s", "s", "h", "_", "m", "a", "i", "n", "_", "d", "o", "c">>) @@
    ("read_ssh_advanced_doc" :> <<"r", "e", "a", "d", "_", "s", "s", "h", "_", "a", "d", "v", "a", "n", "c", "e", "d", "_", "d", "o", "c">>) @@
    ("read_ssh_faq_doc" :> <<"r", "e", "a", "d", "_", "s", "s", "h", "_", "f", "a", "q", "_", "d", "o", "c">>) @@
    ("read_thinlinc_doc" :> <<"r", "e", "a", "d", "_", "t", "h", "i", "n", "l", "i", "n", "c", "_", "d", "o", "c">>) @@
    ("read_ondemand_doc" :> <<"r", "e", "a", "d", "_", "o", "n", "d", "e", "m", "a", "n", "d", "_", "d", "o", "c">>) @@
    ("read_globus_transfer_doc" :> <<"r", "e", "a", "d", "_", "g", "l", "o", "b", "u", "s", "_", "t", "r", "a", "n", "s", "f", "e", "r", "_", "d", "o", "c">>) @@
    ("read_globus_share_doc" :> <<"r", "e", "a", "d", "_", "g", "l", "o", "b", "u", "s", "_", "s", "h", "a", "r", "e", "_", "d", "o", "c">>) @@
    ("read_samba_doc" :> <<"r", "e", "a", "d", "_", "s", "a", "m", "b", "a", "_", "d", "o", "c">>) @@
    ("read_software_index_doc" :> <<"r", "e", "a", "d", "_", "s", "o", "f", "t", "w", "a", "r", "e", "_", "i", "n", "d", "e", "x", "_", "d", "o", "c">>) @@
    ("read_python_doc" :> <<"r", "e", "a", "d", "_", "p", "y", "t", "h", "o", "n", "_", "d", "o", "c">>) @@
    ("read_tensorflow_pytorch_doc" :> <<"r", "e", "a", "d", "_", "t", "e", "n", "s", "o", "r", "f", "l", "o", "w", "_", "p", "y", "t", "o", "r", "c", "h", "_", "d", "o", "c">>) @@
    ("read_r_doc" :> <<"r", "e", "a", "d", "_", "r", "_", "d", "o", "c">>) @@
    ("read_matlab_doc" :> <<"r", "e", "a", "d", "_", "m", "a", "t", "l", "a", "b", "_", "d", "o", "c">>) @@
    ("read_singularity_doc" :> <<"r", "e", "a", "d", "_", "s", "i", "n", "g", "u", "l", "a", "r", "i", "t", "y", "_", "d", "o", "c">>) @@
    ("read_compilers_doc" :> <<"r", "e", "a", "d", "_", "c", "o", "m", "p", "i", "l", "e", "r", "s", "_", "d", "o", "c">>) @@
    ("read_software_faq_doc" :> <<"r", "e", "a", "d", "_", "s", "o", "f", "t", "w", "a", "r", "e", "_", "f", "a", "q", "_", "d", "o", "c">>) @@
    ("read_alphafold_doc" :> <<"r", "e", "a", "d", "_", "a", "l", "p", "h", "a", "f", "o", "l", "d", "_", "d", "o", "c">>) @@
    ("read_gromacs_doc" :> <<"r", "e", "a", "d", "_", "g", "r", "o", "m", "a", "c", "s", "_", "d", "o", "c">>) @@
    ("read_lammps_doc" :> <<"r", "e", "a", "d", "_", "l", "a", "m", "m", "p", "s", "_", "d", "o", "c">>) @@
    ("read_gaussian_doc" :> <<"r", "e", "a", "d", "_", "g", "a", "u", "s", "s", "i", "a", "n", "_", "d", "o", "c">>) @@
    ("read_midwayr3_overview_doc" :> <<"r", "e", "a", "d", "_", "m", "i", "d", "w", "a", "y", "r", "3", "_", "o", "v", "e", "r", "v", "i", "e", "w", "_", "d", "o", "c">>) @@
    ("read_skyway_doc" :> <<"r", "e", "a", "d", "_", "s", "k", "y", "w", "a", "y", "_", "d", "o", "c">>) @@
    ("read_gis_doc" :> <<"r", "e", "a", "d", "_", "g", "i", "s", "_", "d", "o", "c">>) @@
    ("read_databases_doc" :> <<"r", "e", "a", "d", "_", "d", "a", "t", "a", "b", "a", "s", "e", "s", "_", "d", "o", "c">>) @@
    ("read_web_about_rcc" :> <<"r", "e", "a", "d", "_", "w", "e", "b", "_", "a", "b", "o", "u", "t", "_", "r", "c", "c">>) @@
    ("read_web_advisory_committees" :> <<"r", "e", "a", "d", "_", "w", "e", "b", "_", "a", "d", "v", "i", "s", "o", "r", "y", "_", "c", "o", "m", "m", "i", "t", "t", "e", "e", "s">>) @@
    ("read_web_ai_spotlight" :> <<"r", "e", "a", "d", "_", "w", "e", "b", "_", "a", "i", "_", "s", "p", "o", "t", "l", "i", "g", "h", "t">>) @@
    ("read_web_director_welcome" :> <<"r", "e", "a", "d", "_", "w", "e", "b", "_", "d", "i", "r", "e", "c", "t", "o", "r", "_", "w", "e", "l", "c", "o", "m", "e">>) @@
    ("read_web_rcc_team" :> <<"r", "e", "a", "d", "_", "w", "e", "b", "_", "r", "c", "c", "_", "t", "e", "a", "m">>) @@
    ("read_web_user_policy" :> <<"r", "e", "a", "d", "_", "w", "e", "b", "_", "u", "s", "e", "r", "_", "p", "o", "l", "i", "c", "y">>) @@
    ("read_web_oversight_committee" :> <<"r", "e", "a", "d", "_", "w", "e", "b", "_", "o", "v", "e", "r", "s", "i", "g", "h", "t", "_", "c", "o", "m", "m", "i", "t", "t", "e", "e">>) @@
    ("read_web_vision_mission" :> <<"r", "e", "a", "d", "_", "w", "e", "b", "_", "v", "i", "s", "i", "o", "n", "_", "m", "i", "s", "s", "i", "o", "n">>) @@
    ("read_web_access" :> <<"r", "e", "a", "d", "_", "w", "e", "b", "_", "a", "c", "c", "e", "s", "s">>) @@
    ("read_web_accounts_allocations" :> <<"r", "e", "a", "d", "_", "w", "e", "b", "_", "a", "c", "c", "o", "u", "n", "t", "s", "_", "a", "l", "l", "o", "c", "a", "t", "i", "o", "n", "s">>) @@
    ("read_web_grants_publications" :> <<"r", "e", "a", "d", "_", "w", "e", "b", "_", "g", "r", "a", "n", "t", "s", "_", "p", "u", "b", "l", "i", "c", "a", "t", "i", "o", "n", "s">>) @@
    ("read_web_acknowledging_rcc" :> <<"r", "e", "a", "d", "_", "w", "e", "b", "_", "a", "c", "k", "n", "o", "w", "l", "e", "d", "g", "i", "n", "g", "_", "r", "c", "c">>) @@
    ("read_web_facilities_resources" :> <<"r", "e", "a", "d", "_", "w", "e", "b", "_", "f", "a", "c", "i", "l", "i", "t", "i", "e", "s", "_", "r", "e", "s", "o", "u", "r", "c", "e", "s">>) @@
    ("read_web_pi_proposals" :> <<"r", "e", "a", "d", "_", "w", "e", "b", "_", "p", "i", "_", "p", "r", "o", "p", "o", "s", "a", "l", "s">>) @@
    ("read_web_grant_support" :> <<"r", "e", "a", "d", "_", "w", "e", "b", "_", "g", "r", "a", "n", "t", "_", "s", "u", "p", "p", "o", "r", "t">>) @@
    ("read_web_hardware_quotes" :> <<"r", "e", "a", "d", "_", "w", "e", "b", "_", "h", "a", "r", "d", "w", "a", "r", "e", "_", "q", "u", "o", "t", "e", "s">>) @@
    ("read_web_publications_list" :> <<"r", "e", "a", "d", "_", "w", "e", "b", "_", "p", "u", "b", "l", "i", "c", "a", "t", "i", "o", "n", "s", "_", "l", "i", "s", "t">>) @@
    ("read_web_support_letters" :> <<"r", "e", "a", "d", "_", "w", "e", "b", "_", "s", "u", "p", "p", "o", "r", "t", "_", "l", "e", "t", "t", "e", "r", "s">>) @@
    ("read_web_resources" :> <<"r", "e", "a", "d", "_", "w", "e", "b", "_", "r", "e", "s", "o", "u", "r", "c", "e", "s">>) @@
    ("read_web_hpc_resources" :> <<"r", "e", "a", "d", "_", "w", "e", "b", "_", "h", "p", "c", "_", "r", "e", "s", "o", "u", "r", "c", "e", "s">>) @@
    ("read_web_hosted_data" :> <<"r", "e", "a", "d", "_", "w", "e", "b", "_", "h", "o", "s", "t", "e", "d", "_", "d", "a", "t", "a">>) @@
    ("read_web_networking" :> <<"r", "e", "a", "d", "_", "w", "e", "b", "_", "n", "e", "t", "w", "o", "r", "k", "i", "n", "g">>) @@
    ("read_web_software_resources" :> <<"r", "e", "a", "d", "_", "w", "e", "b", "_", "s", "o", "f", "t", "w", "a", "r", "e", "_", "r", "e", "s", "o", "u", "r", "c", "e", "s">>) @@
    ("read_web_storage_backup" :> <<"r", "e", "a", "d", "_", "w", "e", "b", "_", "s", "t", "o", "r", "a", "g", "e", "_", "b", "a", "c", "k", "u", "p">>) @@
    ("read_web_support_services" :> <<"r", "e", "a", "d", "_", "w", "e", "b", "_", "s", "u", "p", "p", "o", "r", "t", "_", "s", "e", "r", "v", "i", "c", "e", "s">>) @@
    ("read_web_cpp" :> <<"r", "e", "a", "d", "_", "w", "e", "b", "_", "c", "p", "p">>) @@
    ("read_web_consultant_partnership" :> <<"r", "e", "a", "d", "_", "w", "e", "b", "_", "c", "o", "n", "s", "u", "l", "t", "a", "n", "t", "_", "p", "a", "r", "t", "n", "e", "r", "s", "h", "i", "p">>) @@
    ("read_web_consulting_support" :> <<"r", "e", "a", "d", "_", "w", "e", "b", "_", "c", "o", "n", "s", "u", "l", "t", "i", "n", "g", "_", "s", "u", "p", "p", "o", "r", "t">>) @@
    ("read_web_data_management" :> <<"r", "e", "a", "d", "_", "w", "e", "b", "_", "d", "a", "t", "a", "_", "m", "a", "n", "a", "g", "e", "m", "e", "n", "t">>) @@
    ("read_web_data_sharing" :> <<"r", "e", "a", "d", "_", "w", "e", "b", "_", "d", "a", "t", "a", "_", "s", "h", "a", "r", "i", "n", "g">>) @@
    ("read_web_midway2_services" :> <<"r", "e", "a", "d", "_", "w", "e", "b", "_", "m", "i", "d", "w", "a", "y", "2", "_", "s", "e", "r", "v", "i", "c", "e", "s">>) @@
    ("read_web_new_faculty" :> <<"r", "e", "a", "d", "_", "w", "e", "b", "_", "n", "e", "w", "_", "f", "a", "c", "u", "l", "t", "y">>) @@
    ("read_web_outreach" :> <<"r", "e", "a", "d", "_", "w", "e", "b", "_", "o", "u", "t", "r", "e", "a", "c", "h">>) @@
    ("read_web_workshops_training" :> <<"r", "e", "a", "d", "_", "w", "e", "b", "_", "w", "o", "r", "k", "s", "h", "o", "p", "s", "_", "t", "r", "a", "i", "n", "i", "n", "g">>) @@
    ("read_web_faqs" :> <<"r", "e", "a", "d", "_", "w", "e", "b", "_", "f", "a", "q", "s">>) @@
    ("read_web_system_details" :> <<"r", "e", "a", "d", "_", "w", "e", "b", "_", "s", "y", "s", "t", "e", "m", "_", "d", "e", "t", "a", "i", "l", "s">>) @@
    ("read_web_workshops" :> <<"r", "e", "a", "d", "_", "w", "e", "b", "_", "w", "o", "r", "k", "s", "h", "o", "p", "s">>) @@
    ("read_web_workshops_events" :> <<"r", "e", "a", "d", "_", "w", "e", "b", "_", "w", "o", "r", "k", "s", "h", "o", "p", "s", "_", "e", "v", "e", "n", "t", "s">>) @@
    ("read_web_data_viz_committee" :> <<"r", "e", "a", "d", "_", "w", "e", "b", "_", "d", "a", "t", "a", "_", "v", "i", "z", "_", "c", "o", "m", "m", "i", "t", "t", "e", "e">>) @@
    ("read_web_bayesian_forest" :> <<"r", "e", "a", "d", "_", "w", "e", "b", "_", "b", "a", "y", "e", "s", "i", "a", "n", "_", "f", "o", "r", "e", "s", "t">>) @@
    ("read_web_big_data_worms" :> <<"r", "e", "a", "d", "_", "w", "e", "b", "_", "b", "i", "g", "_", "d", "a", "t", "a", "_", "w", "o", "r", "m", "s">>) @@
    ("read_web_our_work" :> <<"r", "e", "a", "d", "_", "w", "e", "b", "_", "o", "u", "r", "_", "w", "o", "r", "k">>) @@
    ("read_web_tools_resources" :> <<"r", "e", "a", "d", "_", "w", "e", "b", "_", "t", "o", "o", "l", "s", "_", "r", "e", "s", "o", "u", "r", "c", "e", "s">>) @@
    ("read_web_index" :> <<"r", "e", "a", "d", "_", "w", "e", "b", "_", "i", "n", "d", "e", "x">>) @@
    ("read_web_midway2" :> <<"r", "e", "a", "d", "_", "w", "e", "b", "_", "m", "i", "d", "w", "a", "y", "2">>) @@
    ("read_web_news_events" :> <<"r", "e", "a", "d", "_", "w", "e", "b", "_", "n", "e", "w", "s", "_", "e", "v", "e", "n", "t", "s">>) @@
    ("read_web_software" :> <<"r", "e", "a", "d", "_", "w", "e", "b", "_", "s", "o", "f", "t", "w", "a", "r", "e">>) @@
    ("read_web_team" :> <<"r", "e", "a", "d", "_", "w", "e", "b", "_", "t", "e", "a", "m">>) @@
    ("read_web_publications" :> <<"r", "e", "a", "d", "_", "w", "e", "b", "_", "p", "u", "b", "l", "i", "c", "a", "t", "i", "o", "n", "s">>) @@
    ("read_web_publications_page" :> <<"r", "e", "a", "d", "_", "w", "e", "b", "_", "p", "u", "b", "l", "i", "c", "a", "t", "i", "o", "n", "s", "_", "p", "a", "g", "e">>) @@
    ("read_web_user_guide_page" :> <<"r", "e", "a", "d", "_", "w", "e", "b", "_", "u", "s", "e", "r", "_", "g", "u", "i", "d", "e", "_", "p", "a", "g", "e">>) @@
    ("read_web_takecourse" :> <<"r", "e", "a", "d", "_", "w", "e", "b", "_", "t", "a", "k", "e", "c", "o", "u", "r", "s", "e">>) @@
    ("read_web_incidence" :> <<"r", "e", "a", "d", "_", "w", "e", "b", "_", "i", "n", "c", "i", "d", "e", "n", "c", "e">>) @@
    ("read_web_mpmri" :> <<"r", "e", "a", "d", "_", "w", "e", "b", "_", "m", "p", "m", "r", "i">>) @@
    ("read_web_pirads" :> <<"r", "e", "a", "d", "_", "w", "e", "b", "_", "p", "i", "r", "a", "d", "s">>) @@
    ("read_nonexistent_doc" :> <<"r", "e", "a", "d", "_", "n", "o", "n", "e", "x", "i", "s", "t", "e", "n", "t", "_", "d", "o", "c">>)

LowerCase == <<"a", "b", "c", "d", "e", "f", "g", "h", "i", "j", "k", "l", "m", "n", "o", "p", "q", "r", "s", "t", "u", "v", "w", "x", "y", "z">>

UpperCase == <<"A", "B", "C", "D", "E", "F", "G", "H", "I", "J", "K", "L", "M", "N", "O", "P", "Q", "R", "S", "T", "U", "V", "W", "X", "Y", "Z">>

IsLower(c) == \E i \in DOMAIN LowerCase : LowerCase[i] = c

IsUpper(c) == \E i \in DOMAIN UpperCase : UpperCase[i] = c

ToUpper(c) == IF IsLower(c) THEN UpperCase[CHOOSE i \in DOMAIN LowerCase : LowerCase[i] = c] ELSE c

ToLower(c) == IF IsUpper(c) THEN LowerCase[CHOOSE i \in DOMAIN UpperCase : UpperCase[i] = c] ELSE c

\* str.replace(old, new): the occurrences of old, left to right and not overlapping
RECURSIVE Replace(_, _, _)
Replace(chars, old, new) ==
    IF Len(chars) < Len(old) THEN chars
    ELSE IF SubSeq(chars, 1, Len(old)) = old
    THEN new \o Replace(SubSeq(chars, Len(old) + 1, Len(chars)), old, new)
    ELSE <<Head(chars)>> \o Replace(Tail(chars), old, new)

\* str.title(): a letter is upper case after a character that is no letter, lower case after a letter
RECURSIVE TitleFrom(_, _)
TitleFrom(chars, previous_is_cased) ==
    IF chars = <<>> THEN <<>>
    ELSE LET c == Head(chars)
             cased == IsLower(c) \/ IsUpper(c)
         IN  <<IF ~cased THEN c ELSE IF previous_is_cased THEN ToLower(c) ELSE ToUpper(c)>>
             \o TitleFrom(Tail(chars), cased)

Title(chars) == TitleFrom(chars, FALSE)

RECURSIVE StrOf(_)
StrOf(chars) == IF chars = <<>> THEN "" ELSE Head(chars) \o StrOf(Tail(chars))

\* DisplayName without the .title()
DisplayName_NoTitle(name) ==
    StrOf(Replace(Replace(Replace(Spelling[name],
                                  <<"r", "e", "a", "d", "_">>, <<>>),
                          <<"_", "d", "o", "c">>, <<>>),
                  <<"_">>, <<" ">>))

\* name.replace('read_', '').replace('_doc', '').replace('_', ' ').title()
DisplayName(name) ==
    StrOf(Title(Replace(Replace(Replace(Spelling[name],
                                        <<"r", "e", "a", "d", "_">>, <<>>),
                                <<"_", "d", "o", "c">>, <<>>),
                        <<"_">>, <<" ">>)))

\* CountName that starts a new entry for every invocation
CountName_NoMerge(tool_counts, display_name) ==
    Append(tool_counts, [name |-> display_name, count |-> 1])

\* tool_counts[display_name] = tool_counts.get(display_name, 0) + 1; a dict keeps the order
\* in which its keys were first set
CountName(tool_counts, display_name) ==
    IF \E i \in DOMAIN tool_counts : tool_counts[i].name = display_name
    THEN [i \in DOMAIN tool_counts |->
             IF tool_counts[i].name = display_name
             THEN [tool_counts[i] EXCEPT !.count = @ + 1]
             ELSE tool_counts[i]]
    ELSE Append(tool_counts, [name |-> display_name, count |-> 1])

RECURSIVE ToolCounts(_, _)
ToolCounts(tool_counts, tool_names) ==
    IF tool_names = <<>> THEN tool_counts
    ELSE ToolCounts(CountName(tool_counts, DisplayName(Head(tool_names))), Tail(tool_names))

\* the two characters U+00C3 U+2014 the source has between "(" and the count, spelled in ASCII
CountMark == "\\u00C3\\u2014"

Part(entry) ==
    IF entry.count > 1
    THEN entry.name \o " (" \o CountMark \o ToString(entry.count) \o ")"
    ELSE entry.name

RECURSIVE JoinParts(_)
JoinParts(parts) ==
    IF parts = <<>> THEN ""
    ELSE IF Len(parts) = 1 THEN parts[1]
    ELSE parts[1] \o ", " \o JoinParts(Tail(parts))

format_tool_names(tool_names) ==
    IF tool_names = <<>> THEN ""
    ELSE LET tool_counts == ToolCounts(<<>>, tool_names)
         IN  JoinParts([i \in DOMAIN tool_counts |-> Part(tool_counts[i])])

(***************************************************************************)
(* Actions.                                                                *)
(***************************************************************************)
\* if prompt: (the chat input is disabled while processing)
Submit(prompt) ==
    /\ ChatInputEnabled(processing)
    /\ Len(messages) <= MaxHistory
    /\ messages' = Append(messages, UserEntry(prompt))
    /\ processing' = TRUE
    /\ pc' = "start"
    /\ UNCHANGED <<api_messages, stream, response_text, tool_use_blocks, response,
                   all_tool_names, tool_results, tool_index, opened, ncalls, decoder, wrapping>>
    /\ st_error' = FALSE

\* if st.session_state.processing: build api_messages and issue the first model call
ProcessRequest ==
    /\ pc = "start"
    /\ processing
    /\ api_messages' = BuildApiMessages(messages)
    /\ ncalls' = 1
    /\ pc' = "awaiting"
    /\ UNCHANGED <<messages, processing, stream, response_text, tool_use_blocks, response,
                   all_tool_names, tool_results, tool_index, opened, st_error, decoder, wrapping>>

\* collect_stream_response returns; the while test; the final append and the finally
ModelReturn(events) ==
    /\ pc = "awaiting"
    /\ LET r == collect_stream_response(events)
           names == ExtendToolNames(all_tool_names, r.tool_use_blocks)
       IN  IF NeedsDispatch(r.tool_use_blocks)
           THEN /\ stream' = events
                /\ response_text' = r.full_text
                /\ tool_use_blocks' = r.tool_use_blocks
                /\ response' = r.final_message
                /\ all_tool_names' = names
                /\ api_messages' = Append(api_messages, AssistantTurn(r.final_message))
                /\ tool_results' = <<>>
                /\ tool_index' = 1
                /\ opened' = <<>>
                /\ messages' = MessagesAfterToolTurn(messages, r.final_message)
                /\ pc' = "dispatch"
                /\ UNCHANGED <<processing, ncalls, st_error, decoder, wrapping>>
           ELSE /\ messages' = AppendFinal(messages, r.final_message, names)
                /\ processing' = FinallyProcessing(FALSE)
                /\ pc' = "idle"
                /\ st_error' = FALSE
                /\ LocalsCleared
                /\ UNCHANGED <<ncalls, wrapping>>

\* result = execute_tool(...); tool_results.append({...})
ExecuteTool(f) ==
    /\ pc = "dispatch"
    /\ tool_index <= Len(tool_use_blocks)
    /\ LET tool_block == tool_use_blocks[tool_index]
       IN  /\ tool_results' = Append(tool_results, ToolResultFor(tool_block, f))
           /\ opened' = opened \o execute_tool(tool_block.name, tool_block.input, f).opened
    /\ tool_index' = tool_index + 1
    /\ UNCHANGED <<messages, processing, pc, api_messages, stream, response_text,
                   tool_use_blocks, response, all_tool_names, ncalls, st_error, decoder, wrapping>>

\* api_messages.append({"role": "user", "content": tool_results}); the next model call
NextCall ==
    /\ pc = "dispatch"
    /\ DispatchDone(tool_index, tool_use_blocks)
    /\ api_messages' = AppendBatch(api_messages, tool_results)
    /\ stream' = <<>>
    /\ ncalls' = ncalls + 1
    /\ pc' = "awaiting"
    /\ UNCHANGED <<messages, processing, response_text, tool_use_blocks, response,
                   all_tool_names, tool_results, tool_index, opened, st_error, decoder, wrapping>>

\* the model call raises: except Exception ... finally
ModelFail ==
    /\ pc = "awaiting"
    /\ messages' = Rollback(messages)
    /\ processing' = FinallyProcessing(TRUE)
    /\ pc' = "idle"
    /\ st_error' = TRUE
    /\ LocalsCleared
    /\ UNCHANGED <<ncalls, wrapping>>

\* if st.button("Clear Chat"): the rerun it forces drops the run in progress
ClearChat ==
    /\ messages' = <<>>
    /\ processing' = FALSE
    /\ pc' = "idle"
    /\ st_error' = FALSE
    /\ LocalsCleared
    /\ ncalls' = 0
    /\ UNCHANGED wrapping

Next ==
    \/ \E prompt \in Prompts : Submit(prompt)
    \/ ProcessRequest
    \/ \E events \in Streams(ncalls, api_messages) : ModelReturn(events)
    \/ \E f \in FileStates : ExecuteTool(f)
    \/ NextCall
    \/ ModelFail
    \/ ClearChat

Spec == Init /\ [][Next]_vars

(***************************************************************************)
(* The session under the scheduling of the script: a step of the script    *)
(* that can run does run, and a model call that is awaited either returns  *)
(* or raises. The model stops asking for tools because its turns are drawn *)
(* from Streams, which has no block left after MaxSessionBlocks. Nothing   *)
(* obliges the user to submit a prompt or to clear the chat.               *)
(***************************************************************************)
ModelAnswers ==
    \/ \E events \in Streams(ncalls, api_messages) : ModelReturn(events)
    \/ ModelFail

FairSpec ==
    /\ Spec
    /\ WF_vars(ProcessRequest)
    /\ WF_vars(ModelAnswers)
    /\ WF_vars(\E f \in FileStates : ExecuteTool(f))
    /\ WF_vars(NextCall)

(***************************************************************************)
(* The script run from any session state: st.session_state.messages is any *)
(* list of up to MaxHistory user and final assistant entries, the empty    *)
(* list and lists that end with an assistant entry included, and           *)
(* processing is either value, so that the except block and Clear Chat     *)
(* meet every shape of history their conditions tell apart. The model      *)
(* asks for one document at most.                                          *)
(***************************************************************************)
HistoryEntries ==
    {UserEntry(prompt) : prompt \in Prompts}
    \cup {FinalEntry(<<TextBlock("Use sinteractive.")>>, <<>>)}

SessionHistories ==
    UNION {[1..n -> HistoryEntries] : n \in 0..MaxHistory}

HistoryStreams(call) ==
    IF call = 1
    THEN {TurnEvents(<<ToolPlan("read_sinteractive_doc", <<>>, TRUE)>>, call, 1),
          TurnEvents(<<TextPlan>>, call, 1)}
    ELSE {TurnEvents(<<TextPlan>>, call, 1)}

InitHistory ==
    /\ messages \in SessionHistories
    /\ processing \in BOOLEAN
    /\ pc = IF processing THEN "start" ELSE "idle"
    /\ api_messages = <<>>
    /\ stream = <<>>
    /\ response_text = ""
    /\ tool_use_blocks = <<>>
    /\ response = NoResponse
    /\ all_tool_names = <<>>
    /\ tool_results = <<>>
    /\ tool_index = 1
    /\ opened = <<>>
    /\ ncalls = 0
    /\ st_error = FALSE
    /\ decoder = DecoderInit
    /\ wrapping = NotWrapping

NextHistory ==
    \/ \E prompt \in Prompts : Submit(prompt)
    \/ ProcessRequest
    \/ \E events \in HistoryStreams(ncalls) : ModelReturn(events)
    \/ \E f \in FileStates : ExecuteTool(f)
    \/ NextCall
    \/ ModelFail
    \/ ClearChat

SpecHistory == InitHistory /\ [][NextHistory]_vars

(***************************************************************************)
(* A session of one request: the only prompt is the first one, and the     *)
(* model may send up to MaxRequestBlocks content blocks.                   *)
(***************************************************************************)
RequestStreams(call, history) ==
    {TurnEvents(plans, call, 1) :
        plans \in TurnPlans(MaxRequestBlocks - AssistantBlocks(history))}

SubmitFirst(prompt) ==
    /\ messages = <<>>
    /\ Submit(prompt)

NextRequest ==
    \/ \E prompt \in Prompts : SubmitFirst(prompt)
    \/ ProcessRequest
    \/ \E events \in RequestStreams(ncalls, api_messages) : ModelReturn(events)
    \/ \E f \in FileStates : ExecuteTool(f)
    \/ NextCall
    \/ ModelFail
    \/ ClearChat

SpecRequest == Init /\ [][NextRequest]_vars

(***************************************************************************)
(* A session of one request in which the model asks once, with empty       *)
(* arguments, for one document, under any name of the registry or of       *)
(* RequestedNames, and then answers in text; the document on disk has any  *)
(* of the lengths around the cap, or is missing or unreadable.             *)
(***************************************************************************)
DocChars == {0, 1, MaxDocChars - 1, MaxDocChars, MaxDocChars + 1, MaxDocChars + MaxDocChars}

DiskStates ==
    {[state |-> "ok", chars |-> n] : n \in DocChars}
    \cup {[state |-> "missing", chars |-> 0], [state |-> "unreadable", chars |-> 0]}

OneToolStreams(call) ==
    IF call = 1
    THEN {TurnEvents(<<ToolPlan(name, <<>>, TRUE)>>, call, 1) :
             name \in ToolRegistry \cup RequestedNames}
    ELSE {TurnEvents(<<TextPlan>>, call, 1)}

NextRead ==
    \/ \E prompt \in Prompts : SubmitFirst(prompt)
    \/ ProcessRequest
    \/ \E events \in OneToolStreams(ncalls) : ModelReturn(events)
    \/ \E f \in DiskStates : ExecuteTool(f)
    \/ NextCall
    \/ ModelFail
    \/ ClearChat

SpecRead == Init /\ [][NextRead]_vars

(***************************************************************************)
(* The first call of a request with its stream taken an event at a time:   *)
(* the events arrive in any order, collect_stream_response handles each    *)
(* one until message_stop, get_final_message reads what is left, and the   *)
(* call returns.  pc is "decoding" inside the for loop, "stopped" after    *)
(* the break, "returned" after the return.                                 *)
(***************************************************************************)
DecoderEvents ==
    {BlockStartTool("toolu_a", "read_sinteractive_doc"),
     BlockStartTool("toolu_b", "read_web_faqs"),
     BlockStartText,
     TextDelta("a"),
     TextDelta("b"),
     JsonDelta("{"),
     JsonDelta("}"),
     JsonDelta("1"),
     Event("content_block_delta", "", "", "", "thinking_delta", "", ""),
     BlockStop,
     MessageStop,
     Event("message_delta", "", "", "", "", "", "")}

InitDecoder ==
    /\ \E prompt \in Prompts : messages = <<UserEntry(prompt)>>
    /\ processing = TRUE
    /\ pc = "decoding"
    /\ api_messages = BuildApiMessages(messages)
    /\ stream = <<>>
    /\ response_text = ""
    /\ tool_use_blocks = <<>>
    /\ response = NoResponse
    /\ all_tool_names = <<>>
    /\ tool_results = <<>>
    /\ tool_index = 1
    /\ opened = <<>>
    /\ ncalls = 1
    /\ st_error = FALSE
    /\ decoder = DecoderInit
    /\ wrapping = NotWrapping

\* a for loop that goes on after message_stop
AfterEvent_NoBreak(event) == "decoding"

\* elif event.type == "message_stop": break
AfterEvent(event) == IF event.type = "message_stop" THEN "stopped" ELSE "decoding"

\* for event in s: ... elif event.type == "message_stop": break
ConsumeEvent(event) ==
    /\ pc = "decoding"
    /\ Len(stream) < MaxEvents
    /\ stream' = Append(stream, event)
    /\ decoder' = OnEvent(decoder, event)
    /\ pc' = AfterEvent(event)
    /\ UNCHANGED <<messages, processing, api_messages, response_text, tool_use_blocks,
                   response, all_tool_names, tool_results, tool_index, opened, ncalls,
                   st_error, wrapping>>

\* final_message = s.get_final_message() reads the rest of the stream
DrainEvent(event) ==
    /\ pc = "stopped"
    /\ Len(stream) < MaxEvents
    /\ stream' = Append(stream, event)
    /\ UNCHANGED <<messages, processing, pc, api_messages, response_text, tool_use_blocks,
                   response, all_tool_names, tool_results, tool_index, opened, ncalls,
                   st_error, decoder, wrapping>>

\* return full_text, tool_use_blocks, final_message
ReturnResponse ==
    /\ pc \in {"decoding", "stopped"}
    /\ response_text' = decoder.full_text
    /\ tool_use_blocks' = decoder.tool_use_blocks
    /\ response' = get_final_message(stream)
    /\ pc' = "returned"
    /\ UNCHANGED <<messages, processing, api_messages, stream, all_tool_names, tool_results,
                   tool_index, opened, ncalls, st_error, decoder, wrapping>>

NextDecoder ==
    \/ \E event \in DecoderEvents : ConsumeEvent(event)
    \/ \E event \in DecoderEvents : DrainEvent(event)
    \/ ReturnResponse

SpecDecoder == InitDecoder /\ [][NextDecoder]_vars

(***************************************************************************)
(* The line-wrapping repair of src/web/cleanup_v2.py. A line is a sequence *)
(* of characters; wrapping holds the locals of fix_line_wrapping and the   *)
(* place the function has reached.                                         *)
(***************************************************************************)
MaxLines == 3

MaxLineLen == 1

\* the three characters the source has for the bullet, spelled in ASCII
Bullet == <<"\\u00E2", "\\u20AC", "\\u00A2">>

\* str.isspace, str.isalpha, str.islower, str.isupper of one character
IsSpaceChar(c) == c \in {" ", "\t"}

IsLowerChar(c) == IsLower(c) \/ c = "\\u00E2"

IsAlphaChar(c) == IsLowerChar(c) \/ IsUpper(c)

RECURSIVE rstrip(_)
rstrip(chars) ==
    IF chars = <<>> THEN <<>>
    ELSE IF IsSpaceChar(chars[Len(chars)]) THEN rstrip(SubSeq(chars, 1, Len(chars) - 1))
    ELSE chars

RECURSIVE lstrip(_)
lstrip(chars) ==
    IF chars = <<>> THEN <<>>
    ELSE IF IsSpaceChar(Head(chars)) THEN lstrip(Tail(chars))
    ELSE chars

strip(chars) == rstrip(lstrip(chars))

startswith(chars, prefix) ==
    Len(chars) >= Len(prefix) /\ SubSeq(chars, 1, Len(prefix)) = prefix

endswith(chars, suffix) ==
    Len(chars) >= Len(suffix)
    /\ SubSeq(chars, Len(chars) - Len(suffix) + 1, Len(chars)) = suffix

\* str.isupper: at least one cased character and no lowercase one
isupper(chars) ==
    /\ \E n \in DOMAIN chars : IsUpper(chars[n])
    /\ \A n \in DOMAIN chars : ~IsLowerChar(chars[n])

Rep(c, n) == [k \in 1..n |-> c]

\* what a call gives: a value, or an IndexError
Returns(value) == [raised |-> FALSE, value |-> value]

IndexError == [raised |-> TRUE, value |-> FALSE]

\* current[-1] of the stripped current line raises IndexError when that line is empty
looks_like_continuation(current_line, next_line) ==
    IF current_line = <<>> \/ next_line = <<>> THEN Returns(FALSE)
    ELSE LET current == rstrip(current_line)
             next_stripped == strip(next_line)
         IN  IF next_stripped = <<>> THEN Returns(FALSE)
             ELSE IF \E p \in {<<".">>, <<"!">>, <<"?">>, <<":">>} : endswith(current, p)
             THEN Returns(FALSE)
             ELSE IF \E p \in {<<"*">>, <<"-">>, Bullet, <<"h", "t", "t", "p">>,
                               <<"h", "t", "t", "p", "s">>, <<"U", "R", "L", ":">>,
                               <<"T", "i", "t", "l", "e", ":">>} :
                        startswith(next_stripped, p)
             THEN Returns(FALSE)
             ELSE IF startswith(next_stripped, Rep("=", 10)) THEN Returns(FALSE)
             ELSE IF isupper(next_stripped) /\ Len(next_stripped) > 5 THEN Returns(FALSE)
             ELSE IF current = <<>> THEN IndexError
             ELSE IF IsAlphaChar(current[Len(current)]) /\ IsLowerChar(next_stripped[1])
             THEN Returns(TRUE)
             ELSE IF Len(current) >= 80 /\ IsAlphaChar(current[Len(current)])
             THEN Returns(TRUE)
             ELSE Returns(FALSE)

\* current.rstrip() + next_line, or with ' ' between the two
Joined(current, stripped_next) ==
    IF IsAlphaChar(current[Len(current)]) /\ IsLowerChar(stripped_next[1])
    THEN rstrip(current) \o stripped_next
    ELSE rstrip(current) \o <<" ">> \o stripped_next

\* the lines the function is given: every line of up to MaxLineLen characters of LineChars,
\* and lines that meet the tests of looks_like_continuation
LineChars == {"a", "B", " ", ".", "-"}

ShortLines == UNION {[1..n -> LineChars] : n \in 0..MaxLineLen}

SampleLines ==
    {Rep("a", 80), Rep("a", 79) \o <<" ">>, Rep("=", 10), Rep("B", 6),
     <<"h", "t", "t", "p">>, <<"U", "R", "L", ":">>, Bullet \o <<"a">>,
     <<"a", " ">>, <<" ", "a", " ">>, <<"\t">>}

InputLines == ShortLines \cup SampleLines

InputLists == UNION {[1..n -> InputLines] : n \in 0..MaxLines}

InitWrap ==
    /\ messages = <<>>
    /\ processing = FALSE
    /\ pc = "idle"
    /\ api_messages = <<>>
    /\ stream = <<>>
    /\ response_text = ""
    /\ tool_use_blocks = <<>>
    /\ response = NoResponse
    /\ all_tool_names = <<>>
    /\ tool_results = <<>>
    /\ tool_index = 1
    /\ opened = <<>>
    /\ ncalls = 0
    /\ st_error = FALSE
    /\ decoder = DecoderInit
    /\ \E lines \in InputLists :
          wrapping = [lines |-> lines, result |-> <<>>, i |-> 0, current |-> <<>>,
                      at |-> "outer"]

AppUnchanged ==
    UNCHANGED <<messages, processing, pc, api_messages, stream, response_text,
                tool_use_blocks, response, all_tool_names, tool_results, tool_index,
                opened, ncalls, st_error, decoder>>

\* while i < len(lines): current = lines[i]
TakeLine ==
    /\ wrapping.at = "outer"
    /\ wrapping.i < Len(wrapping.lines)
    /\ wrapping' = [wrapping EXCEPT !.current = wrapping.lines[wrapping.i + 1],
                                    !.at = "inner"]
    /\ AppUnchanged

\* while i + 1 < len(lines) and looks_like_continuation(current, lines[i + 1])
ContinuationTest ==
    IF wrapping.i + 1 < Len(wrapping.lines)
    THEN looks_like_continuation(wrapping.current, wrapping.lines[wrapping.i + 2])
    ELSE Returns(FALSE)

\* the body of the inner while: merge the next line into current; i += 1
MergeNext ==
    /\ wrapping.at = "inner"
    /\ ~ContinuationTest.raised
    /\ ContinuationTest.value
    /\ wrapping' = [wrapping EXCEPT
                       !.current = Joined(wrapping.current,
                                          strip(wrapping.lines[wrapping.i + 2])),
                       !.i = wrapping.i + 1]
    /\ AppUnchanged

\* result.append(current); i += 1
AppendCurrent ==
    /\ wrapping.at = "inner"
    /\ ~ContinuationTest.raised
    /\ ~ContinuationTest.value
    /\ wrapping' = [wrapping EXCEPT !.result = Append(wrapping.result, wrapping.current),
                                    !.i = wrapping.i + 1,
                                    !.at = "outer"]
    /\ AppUnchanged

\* the test of the inner while raises: the call ends with the exception and no result
RaiseIndexError ==
    /\ wrapping.at = "inner"
    /\ ContinuationTest.raised
    /\ wrapping' = [wrapping EXCEPT !.at = "raised"]
    /\ AppUnchanged

\* return result
ReturnResult ==
    /\ wrapping.at = "outer"
    /\ wrapping.i >= Len(wrapping.lines)
    /\ wrapping' = [wrapping EXCEPT !.at = "returned"]
    /\ AppUnchanged

NextWrap ==
    \/ TakeLine
    \/ MergeNext
    \/ AppendCurrent
    \/ RaiseIndexError
    \/ ReturnResult

SpecWrap == InitWrap /\ [][NextWrap]_vars

\* the function runs: a step that can be taken is taken
FairSpecWrap == SpecWrap /\ WF_vars(NextWrap)

(***************************************************************************)
(* Vocabulary of the properties.                                           *)
(***************************************************************************)
IsUserText(m) == m.role = "user" /\ m.content.kind = "str"

IsFinalAssistant(m) == m.role = "assistant" /\ m.is_final /\ m.content.kind = "list"

LastOf(seq) == seq[Len(seq)]

FrontOf(seq) == SubSeq(seq, 1, Len(seq) - 1)

\* the step is the return of a model call whose decoded turn asks for no tool
TerminalTurnStep ==
    /\ pc = "awaiting"
    /\ \E events \in Streams(ncalls, api_messages) :
          /\ collect_stream_response(events).tool_use_blocks = <<>>
          /\ ModelReturn(events)

\* the step is the return of a model call whose decoded turn asks for tools
ToolTurnStep ==
    /\ pc = "awaiting"
    /\ \E events \in Streams(ncalls, api_messages) :
          /\ collect_stream_response(events).tool_use_blocks # <<>>
          /\ ModelReturn(events)

\* the history gains exactly one final assistant entry, directly after the prompt
GainsOneFinalEntry ==
    /\ Len(messages') = Len(messages) + 1
    /\ FrontOf(messages') = messages
    /\ IsUserText(LastOf(messages))
    /\ IsFinalAssistant(LastOf(messages'))

ResultAnswers(result, tool_block) ==
    /\ result.type = "tool_result"
    /\ result.tool_use_id = tool_block.id
    /\ \E f \in FileStates :
          result.content = execute_tool(tool_block.name, tool_block.input, f).content

C2_BatchMatchesRequests ==
    /\ pc = "dispatch" =>
          /\ Len(tool_use_blocks) >= 1
          /\ Len(tool_results) = tool_index - 1
          /\ Len(tool_results) <= Len(tool_use_blocks)
          /\ \A i \in DOMAIN tool_results : ResultAnswers(tool_results[i], tool_use_blocks[i])
    /\ (pc = "awaiting" /\ ncalls > 1) =>
          LET n == Len(api_messages)
              batch == api_messages[n]
          IN  /\ n = Len(messages) + 2 * (ncalls - 1)
              /\ api_messages[n - 1] = AssistantTurn(response)
              /\ batch.role = "user"
              /\ batch.content.kind = "list"
              /\ Len(batch.content.blocks) = Len(tool_use_blocks)
              /\ Len(tool_use_blocks) >= 1
              /\ \A i \in DOMAIN tool_use_blocks :
                    ResultAnswers(batch.content.blocks[i], tool_use_blocks[i])

\* a batch of two results has been appended and the next call issued
C2_Witness ==
    /\ pc = "awaiting"
    /\ ncalls = 2
    /\ Len(tool_use_blocks) = 2
    /\ tool_use_blocks[1].name # tool_use_blocks[2].name
    /\ Len(LastOf(api_messages).content.blocks) = 2

(***************************************************************************)
(* C3: in every history passed to a model call, each assistant entry whose *)
(* message contains tool-invocation requests is immediately followed by a  *)
(* tool-result entry holding exactly one result with a matching id for     *)
(* each of those requests.                                                 *)
(***************************************************************************)
ToolUseIds(content) ==
    {content.blocks[j].id :
        j \in {k \in DOMAIN content.blocks : content.blocks[k].type = "tool_use"}}

ResultsFor(content, id) ==
    {j \in DOMAIN content.blocks :
        /\ content.blocks[j].type = "tool_result"
        /\ content.blocks[j].tool_use_id = id}

Answered(history, i) ==
    /\ i < Len(history)
    /\ history[i + 1].role = "user"
    /\ history[i + 1].content.kind = "list"
    /\ \A id \in ToolUseIds(history[i].content) :
          Cardinality(ResultsFor(history[i + 1].content, id)) = 1

C3_EveryToolRequestAnswered ==
    pc = "awaiting" =>
        \A i \in DOMAIN api_messages :
            (api_messages[i].role = "assistant" /\ ToolUseIds(api_messages[i].content) # {})
                => Answered(api_messages, i)

(***************************************************************************)
(* C4: a prompt is appended as the last entry, a running request leaves    *)
(* the persisted history untouched, and when a model call raises (the      *)
(* first call or one after tool rounds) the request ends with the prompt   *)
(* removed and nothing of the request kept: the persisted history is what  *)
(* it was before the prompt was submitted.                                 *)
(***************************************************************************)
C4_FailureRestoresHistory ==
    [][/\ (\E prompt \in Prompts : Submit(prompt)) =>
             (FrontOf(messages') = messages /\ IsUserText(LastOf(messages')))
       /\ (processing /\ processing') => messages' = messages
       /\ ModelFail =>
             /\ messages # <<>>
             /\ IsUserText(LastOf(messages))
             /\ messages' = FrontOf(messages)
             /\ ~processing'
             /\ pc' = "idle"
             /\ api_messages' = <<>>
             /\ all_tool_names' = <<>>
             /\ tool_results' = <<>>
             /\ response' = NoResponse]_vars

\* a model call made after a tool round has failed, in a session with an earlier exchange
C4_Witness ==
    /\ st_error
    /\ pc = "idle"
    /\ ~processing
    /\ ncalls = 2
    /\ Len(messages) = 2
    /\ IsFinalAssistant(messages[2])

(***************************************************************************)
(* C5: a tool block that is closed with an argument text that is empty or  *)
(* does not parse as JSON still yields its tool request, with arguments    *)
(* the empty mapping; the other closed tool blocks of the turn are decoded *)
(* too, the request stays in flight and the loop dispatches the request.   *)
(***************************************************************************)
\* events[i] opens a tool block that events[k] closes, before any message-stop
ClosedToolBlock(events, i, k) ==
    /\ i < k
    /\ events[i].type = "content_block_start"
    /\ events[i].block_type = "tool_use"
    /\ events[k].type = "content_block_stop"
    /\ \A j \in (i + 1)..(k - 1) : events[j].type = "content_block_delta"
    /\ \A j \in 1..i : events[j].type # "message_stop"

\* the argument fragments received between events[i] and events[k], concatenated
RECURSIVE ArgumentText(_, _, _)
ArgumentText(events, i, k) ==
    IF i + 1 >= k THEN ""
    ELSE (IF events[i + 1].delta_type = "input_json_delta"
          THEN events[i + 1].partial_json ELSE "")
         \o ArgumentText(events, i + 1, k)

Unparsable(text) == text = "" \/ ~JsonLoads(text).ok

\* request n of the decoded turn is the tool opened by `start`, and it is dispatched in turn
DecodedAndDispatched(start, n) ==
    /\ tool_use_blocks[n].id = start.id
    /\ tool_use_blocks[n].name = start.name
    /\ (n < tool_index) => tool_results[n].tool_use_id = start.id

C5_UnparsableArgumentsGiveEmptyMapping ==
    stream # <<>> =>
        /\ pc = "dispatch"
        /\ processing
        /\ IsUserText(LastOf(messages))
        /\ \A i \in DOMAIN stream : \A k \in DOMAIN stream :
              ClosedToolBlock(stream, i, k) =>
                 \E n \in DOMAIN tool_use_blocks :
                    /\ DecodedAndDispatched(stream[i], n)
                    /\ Unparsable(ArgumentText(stream, i, k))
                          => tool_use_blocks[n].input = EmptyDict

\* a request whose argument text was "{" has been decoded and executed, another follows it
C5_Witness ==
    /\ pc = "dispatch"
    /\ tool_index = 3
    /\ \E i \in DOMAIN stream : \E k \in DOMAIN stream :
          /\ ClosedToolBlock(stream, i, k)
          /\ ArgumentText(stream, i, k) = "{"
          /\ tool_use_blocks[1].id = stream[i].id
          /\ tool_results[1].tool_use_id = stream[i].id

(***************************************************************************)
(* C6: a request for a tool that is not in the registry gets the result    *)
(* "Unknown tool: <id>" under its own id, at its own place among the       *)
(* results and in the batch, and the next model call is issued.            *)
(***************************************************************************)
UnknownToolResult(tool_block) ==
    ToolResultBlock(tool_block.id,
                    IF tool_block.name = "read_nonexistent_doc"
                    THEN Lit("Unknown tool: read_nonexistent_doc")
                    ELSE Lit("Unknown tool: " \o tool_block.name))

C6_UnknownToolIsAnswered ==
    /\ pc = "dispatch" =>
          \A i \in DOMAIN tool_results :
             tool_use_blocks[i].name \notin ToolRegistry
                => tool_results[i] = UnknownToolResult(tool_use_blocks[i])
    /\ (pc = "awaiting" /\ ncalls > 1) =>
          /\ processing
          /\ \A i \in DOMAIN tool_use_blocks :
                tool_use_blocks[i].name \notin ToolRegistry
                   => /\ i \in DOMAIN LastOf(api_messages).content.blocks
                      /\ LastOf(api_messages).content.blocks[i]
                            = UnknownToolResult(tool_use_blocks[i])

\* the next call has been issued after a turn that asked for read_nonexistent_doc second
C6_Witness ==
    /\ pc = "awaiting"
    /\ ncalls = 2
    /\ Len(tool_use_blocks) = 2
    /\ tool_use_blocks[2].name = "read_nonexistent_doc"
    /\ tool_use_blocks[1].name \in ToolRegistry

(***************************************************************************)
(* C7: the names of TOOLS are exactly the keys of DOC_PATHS and            *)
(* WEB_DOC_PATHS; executing a registry id opens its document (under        *)
(* DOCS_BASE_PATH or WEB_BASE_PATH) and never answers "Unknown tool";      *)
(* executing any other id opens nothing and answers "Unknown tool: <id>";  *)
(* so a dispatch has opened exactly the documents of the registry ids it   *)
(* has executed, in order.                                                 *)
(***************************************************************************)
DocumentOf(name) ==
    IF name \in DOMAIN DOC_PATHS THEN DOCS_BASE_PATH \o "/" \o DOC_PATHS[name]
    ELSE WEB_BASE_PATH \o "/" \o WEB_DOC_PATHS[name]

RegistryResolves ==
    /\ ToolRegistry = DOMAIN DOC_PATHS \cup DOMAIN WEB_DOC_PATHS
    /\ DOMAIN DOC_PATHS \cap DOMAIN WEB_DOC_PATHS = {}
    /\ \A name \in ToolRegistry \cup RequestedNames : \A f \in FileStates :
          LET r == execute_tool(name, EmptyDict, f)
          IN  IF name \in ToolRegistry
              THEN /\ r.opened = <<DocumentOf(name)>>
                   /\ r.content # Lit("Unknown tool: " \o name)
              ELSE /\ r.opened = <<>>
                   /\ r.content = Lit("Unknown tool: " \o name)

RECURSIVE DocumentsOf(_, _)
DocumentsOf(blocks, n) ==
    IF n = 0 THEN <<>>
    ELSE DocumentsOf(blocks, n - 1)
         \o (IF blocks[n].name \in ToolRegistry THEN <<DocumentOf(blocks[n].name)>> ELSE <<>>)

C7_ReadsExactlyRegisteredTools ==
    /\ RegistryResolves
    /\ pc = "dispatch" => opened = DocumentsOf(tool_use_blocks, tool_index - 1)

\* a dispatch has executed an unknown id and then a web id: one document opened
C7_Witness ==
    /\ pc = "dispatch"
    /\ tool_index = 3
    /\ tool_use_blocks[1].name \notin ToolRegistry
    /\ tool_use_blocks[2].name \in DOMAIN WEB_DOC_PATHS
    /\ Len(opened) = 1

(***************************************************************************)
(* C8: a request is in flight exactly while processing is true; while it   *)
(* is, no step appends a user entry to the history or starts a request,    *)
(* and the history changes only when the request ends.                     *)
(***************************************************************************)
UserEntryAppended ==
    /\ Len(messages') = Len(messages) + 1
    /\ LastOf(messages').role = "user"

RequestStarted == pc' = "start"

C8_BusyRejectsInput ==
    /\ [](processing <=> pc # "idle")
    /\ [][processing =>
             /\ ~UserEntryAppended
             /\ ~RequestStarted
             /\ (messages' # messages => ~processing')]_vars

\* a request is in flight, after a tool round, in a session that holds an earlier exchange
C8_Witness ==
    /\ processing
    /\ pc = "awaiting"
    /\ ncalls = 2
    /\ Len(messages) = 3
    /\ ~ChatInputEnabled(processing)

(***************************************************************************)
(* C9: the history passed to the k-th model call of a request is the       *)
(* persisted session entries in order, ending with the new prompt,         *)
(* followed by k-1 pairs of an assistant turn and a tool-result batch, the *)
(* last pair being the turn and the results of the latest iteration; the   *)
(* call carries the whole of TOOLS.                                        *)
(***************************************************************************)
C9_CallCarriesWholeHistory ==
    pc = "awaiting" =>
        LET sent == ModelCallRequest(api_messages)
            base == Len(messages)
        IN  /\ ncalls >= 1
            /\ {sent.tools[i].name : i \in DOMAIN sent.tools} = ToolRegistry
            /\ Len(sent.messages) = base + 2 * (ncalls - 1)
            /\ base >= 1
            /\ IsUserText(messages[base])
            /\ \A i \in 1..base :
                  /\ sent.messages[i].role = messages[i].role
                  /\ sent.messages[i].content = messages[i].content
            /\ \A j \in 1..(ncalls - 1) :
                  /\ sent.messages[base + 2 * j - 1].role = "assistant"
                  /\ sent.messages[base + 2 * j - 1].content.kind = "list"
                  /\ sent.messages[base + 2 * j].role = "user"
                  /\ sent.messages[base + 2 * j].content.kind = "list"
                  /\ \A n \in DOMAIN sent.messages[base + 2 * j].content.blocks :
                        sent.messages[base + 2 * j].content.blocks[n].type = "tool_result"
            /\ ncalls > 1 =>
                  /\ sent.messages[Len(sent.messages) - 1].content.blocks = response.content
                  /\ LastOf(sent.messages).content.blocks = tool_results

\* the third call of a request is outstanding
C9_Witness ==
    /\ pc = "awaiting"
    /\ ncalls = 3
    /\ Len(api_messages) = Len(messages) + 4

(***************************************************************************)
(* C10: the persisted history holds only plain-text user entries and final *)
(* assistant entries; while a request runs its last entry is still the     *)
(* prompt, so the assistant turns that were dispatched and the tool-result *)
(* batches are in api_messages alone; and what is rendered is the text of  *)
(* those user and final assistant entries only.                            *)
(***************************************************************************)
RenderedFrom(item, m) ==
    \/ item.role = "user" /\ IsUserText(m) /\ item.text = m.content.text
    \/ item.role = "assistant" /\ IsFinalAssistant(m) /\ item.tool_names = m.tool_names

C10_OnlyPromptsAndFinalAnswersKept ==
    /\ \A i \in DOMAIN messages : IsUserText(messages[i]) \/ IsFinalAssistant(messages[i])
    /\ \A i \in DOMAIN messages :
          messages[i].content.kind = "list" =>
             \A n \in DOMAIN messages[i].content.blocks :
                messages[i].content.blocks[n].type # "tool_result"
    /\ processing => (messages # <<>> /\ IsUserText(LastOf(messages)))
    /\ (pc = "dispatch" \/ (pc = "awaiting" /\ ncalls > 1)) =>
          /\ Len(api_messages) > Len(messages)
          /\ \A i \in DOMAIN messages : messages[i].content = api_messages[i].content
    /\ Len(Display(messages)) <= Len(messages)
    /\ \A d \in DOMAIN Display(messages) :
          \E i \in DOMAIN messages : RenderedFrom(Display(messages)[d], messages[i])

\* a second request is past a tool round: its turn and batch are not in the persisted history
C10_Witness ==
    /\ pc = "awaiting"
    /\ ncalls = 2
    /\ Len(messages) = 3
    /\ Len(api_messages) = 5
    /\ Len(Display(messages)) = 3

(***************************************************************************)
(* What a request has accumulated in the model history.                    *)
(***************************************************************************)
\* the tool results of the batches of a history, in the order they were appended
RECURSIVE BatchResults(_)
BatchResults(history) ==
    IF history = <<>> THEN <<>>
    ELSE (IF Head(history).role = "user" /\ Head(history).content.kind = "list"
          THEN Head(history).content.blocks ELSE <<>>)
         \o BatchResults(Tail(history))

\* the tool_use blocks of the assistant turns a request has added to its history
RECURSIVE RequestedBlocks(_, _)
RequestedBlocks(history, base) ==
    IF Len(history) <= base THEN <<>>
    ELSE RequestedBlocks(FrontOf(history), base)
         \o (IF LastOf(history).role = "assistant"
             THEN SelectSeq(LastOf(history).content.blocks, LAMBDA b : b.type = "tool_use")
             ELSE <<>>)

\* the step ends a request with a new final assistant entry
FinalEntryStep ==
    /\ pc = "awaiting"
    /\ pc' = "idle"
    /\ Len(messages') = Len(messages) + 1

(***************************************************************************)
(* C11: the final assistant entry of a request names, in order and with    *)
(* repetitions, the tools of all the iterations of the request: it has     *)
(* one name for each tool result the request produced, and the i-th name   *)
(* is the name of the tool_use block the i-th result answers.              *)
(***************************************************************************)
C11_FinalEntryNamesEveryToolUsed ==
    [][FinalEntryStep =>
        LET tool_names == LastOf(messages').tool_names
            results == BatchResults(api_messages)
            requested == RequestedBlocks(api_messages, Len(messages))
        IN  /\ Len(tool_names) = Len(results)
            /\ \A i \in 1..Len(results) :
                  \E k \in 1..Len(requested) :
                     /\ requested[k].id = results[i].tool_use_id
                     /\ requested[k].name = tool_names[i]]_vars

\* a request of two iterations has ended with a final entry naming a tool of each
C11_Witness ==
    /\ pc = "idle"
    /\ ncalls = 3
    /\ messages # <<>>
    /\ IsFinalAssistant(LastOf(messages))
    /\ Len(LastOf(messages).tool_names) = 2
    /\ LastOf(messages).tool_names[1] = LastOf(messages).tool_names[2]

(***************************************************************************)
(* Vocabulary of the document reads.                                       *)
(***************************************************************************)
\* the line execute_tool puts in front of the document of a registry tool
ReadHeader(name) ==
    IF name \in DOMAIN DOC_PATHS
    THEN "=== DOCUMENT: " \o DOC_PATHS[name] \o " ===\n\n"
    ELSE "=== WEB CONTENT: " \o WEB_DOC_PATHS[name] \o " ===\n\n"

\* the step executes a registry tool while the disk is in state f
ReadStep(f) ==
    /\ pc = "dispatch"
    /\ tool_index <= Len(tool_use_blocks)
    /\ tool_use_blocks[tool_index].name \in ToolRegistry
    /\ ExecuteTool(f)

(***************************************************************************)
(* C13: reading a document of more than 15,000 characters returns its      *)
(* first 15,000 characters followed by the truncation marker; reading a    *)
(* document of at most 15,000 characters, 15,000 included, returns the     *)
(* whole document and no marker.                                           *)
(***************************************************************************)
C13_LongDocumentsAreCutAtTheCap ==
    [][\A f \in DiskStates :
          f.state = "ok" /\ ReadStep(f) =>
             LET name == tool_use_blocks[tool_index].name
                 returned == LastOf(tool_results').content
             IN  returned =
                    Cat(Lit(ReadHeader(name)),
                        IF f.chars > 15000
                        THEN Cat(FilePrefix(DocumentOf(name), 15000),
                                 Lit("\n\n[... Document truncated due to length ...]"))
                        ELSE FilePrefix(DocumentOf(name), f.chars))]_vars

\* a read has returned the first 15,000 characters of a document and the marker
C13_Witness ==
    /\ pc = "dispatch"
    /\ tool_results # <<>>
    /\ LET returned == tool_results[1].content
       IN  /\ Len(returned) = 3
           /\ returned[2].file = DocumentOf(tool_use_blocks[1].name)
           /\ returned[2].chars = MaxDocChars
           /\ returned[3].lit = TruncationMarker

(***************************************************************************)
(* C14: a prompt, a first turn that asks for read_sinteractive_doc with    *)
(* empty arguments, a second turn that answers in text.  The tool result   *)
(* sent with the second call begins with                                   *)
(* "=== DOCUMENT: slurm/sinteractive.md ===", the second call is the last  *)
(* one, and the displayed history is the prompt followed by one assistant  *)
(* answer whose tool summary is "Sinteractive".                            *)
(***************************************************************************)
\* what may follow the header line in the first piece of a result
HeaderTails ==
    {"\n\n",
     "\n\nError: Document 'slurm/sinteractive.md' not found.",
     "\n\nError reading document: " \o OSErrorText("./docs/slurm/sinteractive.md")}

BeginsWith(text, prefix) ==
    /\ text # <<>>
    /\ IsLit(text[1])
    /\ \E rest \in HeaderTails : text[1].lit = prefix \o rest

\* the second call of the scenario is outstanding
SinteractiveRequested ==
    /\ pc = "awaiting"
    /\ ncalls = 2
    /\ Len(tool_use_blocks) = 1
    /\ tool_use_blocks[1].name = "read_sinteractive_doc"
    /\ tool_use_blocks[1].input = EmptyDict

C14_SinteractiveScenario ==
    /\ [](SinteractiveRequested =>
            /\ IsUserText(LastOf(messages))
            /\ LastOf(api_messages).role = "user"
            /\ Len(LastOf(api_messages).content.blocks) = 1
            /\ BeginsWith(LastOf(api_messages).content.blocks[1].content,
                          "=== DOCUMENT: slurm/sinteractive.md ==="))
    /\ [][SinteractiveRequested /\ ModelReturn(TurnEvents(<<TextPlan>>, 2, 1)) =>
            LET shown == Display(messages')
                n == Len(shown)
            IN  /\ ncalls' = 2
                /\ pc' = "idle"
                /\ n >= 2
                /\ shown[n - 1] = [role |-> "user", text |-> LastOf(messages).content.text,
                                   tool_names |-> <<>>]
                /\ shown[n].role = "assistant"
                /\ shown[n].text = "Use sinteractive."
                /\ format_tool_names(shown[n].tool_names) = "Sinteractive"]_vars

\* the scenario has run to its end
C14_Witness ==
    /\ pc = "idle"
    /\ ncalls = 2
    /\ Len(Display(messages)) = 2
    /\ Display(messages)[1].role = "user"
    /\ Display(messages)[2].role = "assistant"
    /\ Display(messages)[2].tool_names = <<"read_sinteractive_doc">>
    /\ format_tool_names(Display(messages)[2].tool_names) = "Sinteractive"

(***************************************************************************)
(* C15: in an iteration the raw assistant message is appended to the model *)
(* history before any tool runs, the result batch is appended after the    *)
(* last tool has run, and the next call is issued with that append.  The   *)
(* assistant entry holds the content of the message the stream returned,   *)
(* tool_use blocks included.                                               *)
(***************************************************************************)
\* the content of the final message of the stream the model has just sent
RawContent == AccumulateContent(<<>>, stream)

C15_IterationOrderOfEffects ==
    /\ [](pc = "dispatch" =>
            /\ Len(api_messages) = Len(messages) + 2 * ncalls - 1
            /\ LastOf(api_messages) = [role |-> "assistant", content |-> ListContent(RawContent)]
            /\ Len(tool_results) = tool_index - 1)
    /\ [][pc = "dispatch" /\ api_messages' # api_messages /\ pc' # "idle" =>
            /\ Len(tool_results) = Len(tool_use_blocks)
            /\ api_messages' = Append(api_messages,
                                      [role |-> "user", content |-> ListContent(tool_results)])
            /\ ncalls' = ncalls + 1
            /\ pc' = "awaiting"]_vars
    /\ [][pc = "dispatch" /\ ncalls' # ncalls /\ pc' # "idle" =>
            /\ Len(api_messages') = Len(api_messages) + 1
            /\ LastOf(api_messages').content.blocks = tool_results
            /\ Len(tool_results) = Len(tool_use_blocks)]_vars

\* the second call is outstanding after a turn of a text block and a tool_use block
C15_Witness ==
    /\ pc = "awaiting"
    /\ ncalls = 2
    /\ LET n == Len(api_messages)
       IN  /\ n >= 3
           /\ api_messages[n - 1].role = "assistant"
           /\ Len(api_messages[n - 1].content.blocks) = 2
           /\ api_messages[n - 1].content.blocks[1].type = "text"
           /\ api_messages[n - 1].content.blocks[2].type = "tool_use"
           /\ api_messages[n].role = "user"
           /\ Len(api_messages[n].content.blocks) = 1

(***************************************************************************)
(* C16: within a request the model history only grows at its end.  No step *)
(* of a request changes or removes an entry, and at call number n + 1 the  *)
(* history is the history of the first call followed by n pairs of one     *)
(* assistant turn and one tool-result batch.                               *)
(***************************************************************************)
InRequest(p) == p \in {"awaiting", "dispatch"}

IsAssistantTurn(m) == m.role = "assistant" /\ m.content.kind = "list"

IsResultBatch(m) ==
    /\ m.role = "user"
    /\ m.content.kind = "list"
    /\ \A i \in DOMAIN m.content.blocks : m.content.blocks[i].type = "tool_result"

C16_ModelHistoryIsAppendOnly ==
    /\ [][InRequest(pc) /\ InRequest(pc') =>
            \/ api_messages' = api_messages
            \/ /\ Len(api_messages') = Len(api_messages) + 1
               /\ FrontOf(api_messages') = api_messages]_vars
    /\ [](pc = "awaiting" =>
            LET base == Len(messages)
            IN  /\ Len(api_messages) = base + 2 * (ncalls - 1)
                /\ \A i \in 1..base :
                      api_messages[i] = [role |-> messages[i].role,
                                         content |-> messages[i].content]
                /\ \A n \in 1..(ncalls - 1) :
                      /\ IsAssistantTurn(api_messages[base + 2 * n - 1])
                      /\ IsResultBatch(api_messages[base + 2 * n]))

\* a third call is outstanding: the history has grown twice by two entries
C16_Witness ==
    /\ pc = "awaiting"
    /\ ncalls = 3
    /\ Len(api_messages) = Len(messages) + 4
    /\ IsAssistantTurn(api_messages[Len(messages) + 3])
    /\ IsResultBatch(api_messages[Len(messages) + 4])

(***************************************************************************)
(* C17: the loop does one thing at a time.  A model call is issued only    *)
(* when none is outstanding; a tool runs only during a dispatch, never     *)
(* while a call is outstanding, and answers the next tool_use block in     *)
(* order; the next call is issued only after every block of the turn has   *)
(* its result.                                                             *)
(***************************************************************************)
\* the step runs a tool: tool_results gains an entry
ToolExecuted == Len(tool_results') = Len(tool_results) + 1

\* the step issues a model call
CallIssued == pc # "awaiting" /\ pc' = "awaiting"

C17_LoopIsSequential ==
    /\ [][ToolExecuted =>
            /\ pc = "dispatch"
            /\ pc' = "dispatch"
            /\ FrontOf(tool_results') = tool_results
            /\ Len(tool_results') <= Len(tool_use_blocks)
            /\ LastOf(tool_results').tool_use_id = tool_use_blocks[Len(tool_results')].id
            /\ UNCHANGED <<api_messages, ncalls, tool_use_blocks>>]_vars
    /\ [][CallIssued =>
            \/ pc = "start" /\ ncalls' = 1
            \/ /\ pc = "dispatch"
               /\ ncalls' = ncalls + 1
               /\ Len(tool_results) = Len(tool_use_blocks)
               /\ \A i \in DOMAIN tool_use_blocks :
                     tool_results[i].tool_use_id = tool_use_blocks[i].id]_vars
    /\ [][pc = "awaiting" /\ pc' = "awaiting" => UNCHANGED vars]_vars
    /\ [][pc = "dispatch" => pc' \in {"dispatch", "awaiting"} \/ messages' = <<>>]_vars

\* two tools of one turn have run, one after the other, and the next call is outstanding
C17_Witness ==
    /\ pc = "awaiting"
    /\ ncalls = 2
    /\ Len(tool_use_blocks) = 2
    /\ Len(tool_results) = 2
    /\ tool_results[1].tool_use_id = tool_use_blocks[1].id
    /\ tool_results[2].tool_use_id = tool_use_blocks[2].id

(***************************************************************************)
(* C18: the loop has no iteration cap.  Whatever the number of calls made, *)
(* a turn that asks for tools starts a dispatch and the dispatch ends in   *)
(* another call, with processing still true; the steps of the loop clear   *)
(* processing only at a turn that asks for no tool or at a failed call.    *)
(* (Clear Chat, which drops the whole session, is no step of the loop.)    *)
(***************************************************************************)
ChatCleared == messages' = <<>> /\ ncalls' = 0

CallFailed == pc = "awaiting" /\ pc' = "idle" /\ st_error'

C18_NoIterationCap ==
    /\ [](InRequest(pc) => processing)
    /\ [][ToolTurnStep => pc' = "dispatch" /\ processing' /\ ncalls' = ncalls]_vars
    /\ [][pc = "dispatch" /\ pc' # "dispatch" /\ ~ChatCleared =>
            pc' = "awaiting" /\ processing' /\ ncalls' = ncalls + 1]_vars
    /\ [][processing /\ ~processing' =>
            TerminalTurnStep \/ CallFailed \/ ChatCleared]_vars

\* a request has gone through as many dispatch rounds as the model had blocks to send
C18_Witness ==
    /\ pc = "awaiting"
    /\ processing
    /\ ncalls = MaxSessionBlocks + 1
    /\ Len(api_messages) = Len(messages) + 2 * MaxSessionBlocks

(***************************************************************************)
(* C19: when the document of a registry tool is missing or cannot be read, *)
(* the tool's result is an ordinary tool_result block whose content is the *)
(* header line followed by an error text; the dispatch goes on, the batch  *)
(* with that result is sent with the next call, and the prompt stays in    *)
(* the history.                                                            *)
(***************************************************************************)
DocPathOf(name) ==
    IF name \in DOMAIN DOC_PATHS THEN DOC_PATHS[name] ELSE WEB_DOC_PATHS[name]

ErrorTextFor(name, f) ==
    IF f.state = "missing"
    THEN "Error: Document '" \o DocPathOf(name) \o "' not found."
    ELSE "Error reading document: [Errno 13] Permission denied: '" \o DocumentOf(name) \o "'"

IsErrorResult(result, name) ==
    \E f \in {g \in FileStates : g.state # "ok"} :
       result.content = Lit(ReadHeader(name) \o ErrorTextFor(name, f))

C19_ReadErrorIsAnOrdinaryResult ==
    /\ [][\A f \in FileStates :
            f.state # "ok" /\ ReadStep(f) =>
               LET tool_block == tool_use_blocks[tool_index]
               IN  /\ tool_results' =
                         Append(tool_results,
                                [type |-> "tool_result", tool_use_id |-> tool_block.id,
                                 content |-> Lit(ReadHeader(tool_block.name)
                                                 \o ErrorTextFor(tool_block.name, f))])
                   /\ pc' = "dispatch"
                   /\ processing'
                   /\ ~st_error'
                   /\ messages' = messages]_vars
    /\ [][pc = "dispatch" /\ pc' # "dispatch" /\ ~ChatCleared =>
            /\ pc' = "awaiting"
            /\ api_messages' = Append(api_messages,
                                      [role |-> "user", content |-> ListContent(tool_results)])
            /\ messages' = messages]_vars

\* the second call is outstanding with a batch that holds the error text of a failed read
C19_Witness ==
    /\ pc = "awaiting"
    /\ ncalls = 2
    /\ processing
    /\ IsUserText(LastOf(messages))
    /\ IsResultBatch(LastOf(api_messages))
    /\ \E i \in DOMAIN tool_use_blocks :
          /\ tool_use_blocks[i].name \in ToolRegistry
          /\ IsErrorResult(LastOf(api_messages).content.blocks[i], tool_use_blocks[i].name)

(***************************************************************************)
(* C20: the text the decoder returns is the payloads of the text deltas    *)
(* that arrived before message_stop, put one after the other in the order  *)
(* of arrival with nothing between them, whatever other events arrived     *)
(* among them.                                                             *)
(***************************************************************************)
\* the events that arrived before the first message_stop
RECURSIVE BeforeStop(_)
BeforeStop(events) ==
    IF events = <<>> \/ Head(events).type = "message_stop" THEN <<>>
    ELSE <<Head(events)>> \o BeforeStop(Tail(events))

IsTextDelta(e) == e.type = "content_block_delta" /\ e.delta_type = "text_delta"

RECURSIVE Payloads(_)
Payloads(deltas) ==
    IF deltas = <<>> THEN "" ELSE Head(deltas).text \o Payloads(Tail(deltas))

TextReceived(events) == Payloads(SelectSeq(BeforeStop(events), IsTextDelta))

C20_TextIsTheDeltasInOrder ==
    /\ pc \in {"decoding", "stopped"} => decoder.full_text = TextReceived(stream)
    /\ pc = "returned" => response_text = TextReceived(stream)

\* a text delta, the start of a tool_use block and one of its fragments, a second text delta
C20_Witness ==
    /\ pc = "returned"
    /\ Len(stream) = 4
    /\ stream[1] = TextDelta("b")
    /\ stream[2].type = "content_block_start" /\ stream[2].block_type = "tool_use"
    /\ stream[3] = JsonDelta("{")
    /\ stream[4] = TextDelta("a")
    /\ response_text = "ba"

(***************************************************************************)
(* Vocabulary of the event streams.                                        *)
(***************************************************************************)
IsToolStart(e) == e.type = "content_block_start" /\ e.block_type = "tool_use"

IsBlockStop(e) == e.type = "content_block_stop"

IsFragment(e) == e.type = "content_block_delta" /\ e.delta_type = "input_json_delta"

\* the position of the tool block-start whose record is open after these events, 0 if none is
OpenStart(events) ==
    LET starts == {i \in DOMAIN events : IsToolStart(events[i])}
    IN  IF starts = {} THEN 0
        ELSE LET s == CHOOSE i \in starts : \A j \in starts : j <= i
             IN  IF \E k \in (s + 1)..Len(events) : IsBlockStop(events[k]) THEN 0 ELSE s

\* the argument fragments at the positions after s, one after the other
RECURSIVE FragmentsAfter(_, _)
FragmentsAfter(events, s) ==
    IF s >= Len(events) THEN ""
    ELSE (IF IsFragment(events[s + 1]) THEN events[s + 1].partial_json ELSE "")
         \o FragmentsAfter(events, s + 1)

\* events[t] is a block-stop that closes an open tool record
ClosesTool(events, t) ==
    /\ IsBlockStop(events[t])
    /\ OpenStart(SubSeq(events, 1, t - 1)) > 0

\* the number of tool records closed by the first t events
ClosedUpTo(events, t) == Cardinality({k \in 1..t : ClosesTool(events, k)})

\* the step hands event e to the for loop of the decoder
Consumes(e) == pc = "decoding" /\ stream' = Append(stream, e)

(***************************************************************************)
(* C21: the argument accumulator holds the fragments received since the    *)
(* open tool record was opened, one after the other in order of arrival,   *)
(* and is empty when no record is open; the arguments of a request are the *)
(* parse of what the accumulator held at the block-stop; a fragment that   *)
(* arrives while no record is open changes nothing.                        *)
(***************************************************************************)
C21_ArgumentsAreTheFragmentsOfTheBlock ==
    /\ [](pc \in {"decoding", "stopped", "returned"} =>
            LET events == BeforeStop(stream)
                s == OpenStart(events)
            IN  /\ (decoder.current_tool = <<>>) <=> (s = 0)
                /\ decoder.current_tool_input =
                      IF s = 0 THEN "" ELSE FragmentsAfter(events, s)
                /\ \A t \in DOMAIN events :
                      ClosesTool(events, t) =>
                         LET before == SubSeq(events, 1, t - 1)
                             n == ClosedUpTo(events, t)
                         IN  /\ n <= Len(decoder.tool_use_blocks)
                             /\ decoder.tool_use_blocks[n].input =
                                   ParseToolInput(FragmentsAfter(before, OpenStart(before))))
    /\ [][\A e \in DecoderEvents :
            IsFragment(e) /\ decoder.current_tool = <<>> /\ Consumes(e) =>
               decoder' = decoder]_vars

\* the fragments "{" and "}" of a block were parsed at its block-stop
C21_Witness ==
    /\ pc = "returned"
    /\ Len(stream) = 4
    /\ IsToolStart(stream[1])
    /\ stream[2] = JsonDelta("{")
    /\ stream[3] = JsonDelta("}")
    /\ IsBlockStop(stream[4])
    /\ Len(tool_use_blocks) = 1
    /\ tool_use_blocks[1].input = JsonLoads("{}").value

(***************************************************************************)
(* C22: when every tool block-start received before message_stop is        *)
(* followed by a block-stop with no block-start and no message_stop in     *)
(* between, the decoder returns one request for each of these tool blocks, *)
(* in the order they were opened, with the id and the name of the          *)
(* block-start.  In any stream the requests are as many as the block-stops *)
(* that found a tool record open: a block-stop that finds none adds no     *)
(* request.                                                                *)
(***************************************************************************)
\* every tool block-start of the stream is closed before the next block-start or message_stop
EveryToolBlockClosed(events) ==
    \A i \in DOMAIN events :
       IsToolStart(events[i]) =>
          \E k \in (i + 1)..Len(events) :
             /\ IsBlockStop(events[k])
             /\ \A j \in (i + 1)..(k - 1) :
                   events[j].type \notin {"content_block_start", "message_stop"}

C22_OneRequestPerClosedToolBlock ==
    pc = "returned" =>
       LET events == BeforeStop(stream)
           starts == SelectSeq(events, IsToolStart)
       IN  /\ Len(tool_use_blocks) = ClosedUpTo(events, Len(events))
           /\ EveryToolBlockClosed(events) =>
                 /\ Len(tool_use_blocks) = Len(starts)
                 /\ \A n \in DOMAIN starts :
                       /\ tool_use_blocks[n].id = starts[n].id
                       /\ tool_use_blocks[n].name = starts[n].name

\* a tool block and a text block, both closed: one request
C22_Witness ==
    /\ pc = "returned"
    /\ Len(stream) = 4
    /\ stream[1] = BlockStartTool("toolu_b", "read_web_faqs")
    /\ IsBlockStop(stream[2])
    /\ stream[3] = BlockStartText
    /\ IsBlockStop(stream[4])
    /\ Len(tool_use_blocks) = 1
    /\ tool_use_blocks[1].id = "toolu_b"

(***************************************************************************)
(* C23: decoding ends at the first message_stop.  The events that arrive   *)
(* after it leave the decoder as it was, the text and the requests         *)
(* returned are those of the events before it, and the message returned is *)
(* the final message of the stream.                                        *)
(***************************************************************************)
HasMessageStop(events) == \E i \in DOMAIN events : events[i].type = "message_stop"

C23_DecodingEndsAtMessageStop ==
    /\ HasMessageStop(stream) => pc # "decoding"
    /\ pc \in {"stopped", "returned"} =>
          decoder = DecodeEvents(DecoderInit, BeforeStop(stream))
    /\ pc = "returned" =>
          /\ response_text = decoder.full_text
          /\ tool_use_blocks = decoder.tool_use_blocks
          /\ response = [content |-> AccumulateContent(<<>>, stream)]

\* a text delta and a closed tool block arrived after message_stop and were not decoded
C23_Witness ==
    /\ pc = "returned"
    /\ Len(stream) = 4
    /\ stream[1] = MessageStop
    /\ IsToolStart(stream[2])
    /\ IsBlockStop(stream[3])
    /\ stream[4] = TextDelta("a")
    /\ response_text = ""
    /\ tool_use_blocks = <<>>

(***************************************************************************)
(* C24: an event whose kind is none of block-start, block-delta,           *)
(* block-stop and message_stop, the block-start of a block that is no tool *)
(* block, and a delta that is neither a text delta nor an argument         *)
(* fragment leave the four locals of the decoder as they were.             *)
(***************************************************************************)
IgnoredEvent(e) ==
    \/ e.type \notin {"content_block_start", "content_block_delta", "content_block_stop",
                      "message_stop"}
    \/ e.type = "content_block_start" /\ e.block_type # "tool_use"
    \/ e.type = "content_block_delta" /\ e.delta_type \notin {"text_delta", "input_json_delta"}

C24_IgnoredEventsChangeNothing ==
    [][\A e \in DecoderEvents :
          IgnoredEvent(e) /\ Consumes(e) =>
             /\ decoder'.full_text = decoder.full_text
             /\ decoder'.current_tool = decoder.current_tool
             /\ decoder'.current_tool_input = decoder.current_tool_input
             /\ decoder'.tool_use_blocks = decoder.tool_use_blocks
             /\ pc' = "decoding"]_vars

\* the three kinds of ignored event arrived while a tool record was open, and it still is
C24_Witness ==
    /\ pc = "decoding"
    /\ Len(stream) = 4
    /\ stream[1] = BlockStartTool("toolu_a", "read_sinteractive_doc")
    /\ stream[2] = BlockStartText
    /\ stream[3].delta_type = "thinking_delta"
    /\ stream[4].type = "message_delta"
    /\ decoder.current_tool # <<>>
    /\ decoder.current_tool[1].id = "toolu_a"

(***************************************************************************)
(* C25: the arguments of every request the decoder produces are a mapping, *)
(* whatever the argument text was: empty, unparsable, or JSON of any       *)
(* kind.                                                                   *)
(***************************************************************************)
C25_ArgumentsAreAlwaysAMapping ==
    \A n \in DOMAIN decoder.tool_use_blocks : decoder.tool_use_blocks[n].input.type = "dict"

(***************************************************************************)
(* C26: the text shown for the final answer of a request against the text  *)
(* the decoder returned for the terminal turn.                             *)
(***************************************************************************)
\* the step is the return of this stream as a terminal turn that is stored as the final answer
StoredAsFinal(events) ==
    /\ pc = "awaiting"
    /\ collect_stream_response(events).tool_use_blocks = <<>>
    /\ ModelReturn(events)
    /\ Len(messages') = Len(messages) + 1

\* the text shown for the entry the step has stored
ShownText == extract_display_text(LastOf(messages').content)

\* the texts of the non-empty text blocks of a stream, block by block
BlockTexts(events) ==
    LET content == AccumulateContent(<<>>, events)
        texts == SelectSeq(content, LAMBDA b : b.type = "text" /\ b.text # "")
    IN  [i \in DOMAIN texts |-> texts[i].text]

RECURSIVE NewlineJoined(_)
NewlineJoined(texts) ==
    IF texts = <<>> THEN ""
    ELSE IF Len(texts) = 1 THEN texts[1]
    ELSE texts[1] \o "\n" \o NewlineJoined(Tail(texts))

\* C26 as stated: the text shown is the concatenation of the text deltas of the turn, also
\* when the turn has more than one text block
C26_ShownTextIsDecodedText ==
    [][\A events \in Streams(ncalls, api_messages) :
          StoredAsFinal(events) => ShownText = TextReceived(events)]_vars

\* C26 amended: the text shown is the texts of the non-empty text blocks of the turn with
\* a newline between one block and the next; it is the concatenation of the text deltas
\* when the turn has at most one such block, and differs from it by these newlines otherwise
C26_ShownTextJoinsBlocksWithNewlines ==
    [][\A events \in Streams(ncalls, api_messages) :
          StoredAsFinal(events) =>
             /\ ShownText = NewlineJoined(BlockTexts(events))
             /\ Len(BlockTexts(events)) <= 1 => ShownText = TextReceived(events)
             /\ Len(BlockTexts(events)) >= 2 => ShownText # TextReceived(events)]_vars

\* the final answer of a request is a turn of two text blocks, shown on two lines
C26_Witness ==
    /\ pc = "idle"
    /\ messages # <<>>
    /\ IsFinalAssistant(LastOf(messages))
    /\ Len(LastOf(messages).content.blocks) = 2
    /\ LastOf(messages).content.blocks[1].type = "text"
    /\ LastOf(messages).content.blocks[2].type = "text"
    /\ extract_display_text(LastOf(messages).content)
          = "Use sinteractive.\nUse sinteractive."

(***************************************************************************)
(* Vocabulary of the tool-usage summary.                                   *)
(***************************************************************************)
\* the display name of every tool name a request may carry
ShownAs == [name \in ToolRegistry \cup RequestedNames |-> DisplayName(name)]

\* the display names of a list of tool names, one for each invocation
DisplayNames(names) == [i \in DOMAIN names |-> ShownAs[names[i]]]

\* the positions at which a display name is used for the first time
RECURSIVE FirstUses(_, _)
FirstUses(shown, i) ==
    IF i > Len(shown) THEN <<>>
    ELSE (IF \E j \in 1..(i - 1) : shown[j] = shown[i] THEN <<>> ELSE <<shown[i]>>)
         \o FirstUses(shown, i + 1)

Occurrences(shown, d) == Cardinality({i \in DOMAIN shown : shown[i] = d})

RECURSIVE SumOf(_)
SumOf(counts) == IF counts = <<>> THEN 0 ELSE Head(counts) + SumOf(Tail(counts))

\* an entry of the summary: the display name, with the repeat count when it is above one
SummaryEntry(d, n) ==
    IF n > 1 THEN d \o " (" \o CountMark \o ToString(n) \o ")" ELSE d

RECURSIVE CommaJoined(_)
CommaJoined(entries) ==
    IF entries = <<>> THEN ""
    ELSE IF Len(entries) = 1 THEN entries[1]
    ELSE entries[1] \o ", " \o CommaJoined(Tail(entries))

\* the lists of tool names the session has: the one of the request in flight and the ones
\* stored with the final answers
NameLists ==
    {all_tool_names}
    \cup {messages[i].tool_names : i \in {k \in DOMAIN messages : IsFinalAssistant(messages[k])}}

SummaryIsGrouped(names) ==
    LET shown == DisplayNames(names)
        firsts == FirstUses(shown, 1)
        counts == [k \in DOMAIN firsts |-> Occurrences(shown, firsts[k])]
        summary == CommaJoined([k \in DOMAIN firsts |-> SummaryEntry(firsts[k], counts[k])])
    IN  /\ \A k, l \in DOMAIN firsts : k # l => firsts[k] # firsts[l]
        /\ SumOf(counts) = Len(names)
        /\ format_tool_names(names) = summary
        /\ names = <<>> <=> summary = ""

(***************************************************************************)
(* C27: the tool-usage summary of a list of tool names has one entry for   *)
(* each distinct display name, in the order of first use, with the repeat  *)
(* count exactly on the names used more than once; the counts (1 where     *)
(* there is none) add up to the number of names, and the summary is empty  *)
(* exactly when the list is.                                               *)
(***************************************************************************)
C27_SummaryGroupsToolsInFirstUseOrder ==
    \A names \in NameLists : SummaryIsGrouped(names)

\* a final answer is stored with one tool used twice in one turn, shown once with its count
C27_Witness ==
    /\ pc = "idle"
    /\ ncalls = 2
    /\ messages # <<>>
    /\ IsFinalAssistant(LastOf(messages))
    /\ LastOf(messages).tool_names = <<"read_sinteractive_doc", "read_sinteractive_doc">>
    /\ format_tool_names(LastOf(messages).tool_names) = "Sinteractive (\\u00C3\\u20142)"

(***************************************************************************)
(* C28: whenever processing is true, then, every model call of the request *)
(* returning or raising and the model ceasing to ask for tools, processing *)
(* is later false, with the script at rest and the chat input enabled.     *)
(***************************************************************************)
C28_BusyFlagIsEventuallyReleased ==
    processing ~> (~processing /\ pc = "idle" /\ ChatInputEnabled(processing))

\* a request has failed at its second model call and the chat input is enabled again
C28_Witness ==
    /\ st_error
    /\ ncalls = 2
    /\ pc = "idle"
    /\ ChatInputEnabled(processing)

(***************************************************************************)
(* Vocabulary of the alternation of the history.                           *)
(***************************************************************************)
\* user entry, final assistant entry, user entry, ... ending with an assistant entry
Alternates(history) ==
    /\ Len(history) % 2 = 0
    /\ \A i \in DOMAIN history :
          IF i % 2 = 1 THEN IsUserText(history[i]) ELSE IsFinalAssistant(history[i])

\* two entries in a row of the history of a model call are prompts of the user
ConsecutivePrompts(history) ==
    \E i \in 1..(Len(history) - 1) :
       /\ history[i].role = "user" /\ history[i].content.kind = "str"
       /\ history[i + 1].role = "user" /\ history[i + 1].content.kind = "str"

(***************************************************************************)
(* C29: whenever processing is false the persisted history alternates user *)
(* entry, final assistant entry, from a user entry to an assistant entry,  *)
(* also after a terminal turn with empty content; and no model call gets a *)
(* history with two user prompts in a row.                                 *)
(***************************************************************************)
C29_IdleHistoryAlternates ==
    /\ ~processing => Alternates(messages)
    /\ ~ConsecutivePrompts(api_messages)

(***************************************************************************)
(* C30: every assistant entry persisted as final has a raw message with no *)
(* tool_use block, also when the stream opens a tool block and does not    *)
(* close it before message_stop or before the next block start.            *)
(***************************************************************************)
C30_FinalEntriesHoldNoToolRequest ==
    \A i \in DOMAIN messages :
       IsFinalAssistant(messages[i]) =>
          \A n \in DOMAIN messages[i].content.blocks :
             messages[i].content.blocks[n].type # "tool_use"

(***************************************************************************)
(* Vocabulary of what the history keeps.                                   *)
(***************************************************************************)
\* the entries of the exchanges before the request in flight: all of them when no request
\* is in flight, all but the prompt of the request otherwise
EarlierEntries ==
    IF processing /\ messages # <<>> /\ IsUserText(LastOf(messages))
    THEN FrontOf(messages)
    ELSE messages

IsPrefixOf(front, history) ==
    /\ Len(front) <= Len(history)
    /\ SubSeq(history, 1, Len(front)) = front

(***************************************************************************)
(* C31: Clear Chat, from any state, leaves the persisted history empty and *)
(* processing false; the rollback of a failed call removes the last entry  *)
(* when it is a user entry and otherwise, the empty history included,      *)
(* leaves the history as it is; and no step other than Clear Chat removes  *)
(* an entry of an exchange before the request in flight.                   *)
(***************************************************************************)
C31_OnlyClearChatDropsEarlierEntries ==
    [][/\ ClearChat => (messages' = <<>> /\ ~processing' /\ ChatInputEnabled(processing'))
       /\ ModelFail =>
             /\ Len(messages') >= Len(messages) - 1
             /\ IsPrefixOf(messages', messages)
             /\ messages' # messages <=> (messages # <<>> /\ LastOf(messages).role = "user")
             /\ ~processing'
       /\ ~ClearChat => IsPrefixOf(EarlierEntries, messages')]_vars

\* a call has failed in a session whose only entry is an assistant entry, which is kept
C31_Witness ==
    /\ st_error
    /\ pc = "idle"
    /\ ncalls = 1
    /\ Len(messages) = 1
    /\ IsFinalAssistant(messages[1])

(***************************************************************************)
(* Vocabulary of the line-wrapping repair.                                 *)
(***************************************************************************)
\* a line without its whitespace
Squeezed(chars) == SelectSeq(chars, LAMBDA c : ~IsSpaceChar(c))

\* the lines from..to of a list, one after the other, without their whitespace
RECURSIVE RunOf(_, _, _)
RunOf(lines, from, to) ==
    IF from > to THEN <<>> ELSE Squeezed(lines[from]) \o RunOf(lines, from + 1, to)

\* result is lines cut into consecutive non-empty runs, one run for each output line
MadeOfConsecutiveRuns(lines, result) ==
    /\ Len(result) <= Len(lines)
    /\ \E last \in [1..Len(result) -> 1..Len(lines)] :
          /\ \A k \in 1..(Len(result) - 1) : last[k] < last[k + 1]
          /\ Len(result) > 0 => last[Len(result)] = Len(lines)
          /\ \A k \in 1..Len(result) :
                Squeezed(result[k])
                   = RunOf(lines, IF k = 1 THEN 1 ELSE last[k - 1] + 1, last[k])
    /\ lines = <<>> <=> result = <<>>

====
